---- MODULE Spec2Model ----
(***************************************************************************)
(* Verification model of the muster-hub infrastructure primitives:         *)
(*   - the typed event bus        (src/infra/events/src/bus.rs)            *)
(*   - the sandboxed storage      (src/infra/storage/src/engine.rs,        *)
(*                                 src/infra/storage/src/security.rs)      *)
(*   - the vault                  (src/infra/vault/src/engine.rs)          *)
(* Each subsystem has its own specification (SpecBus, SpecStorage,         *)
(* SpecPath, SpecVault); the variables of the other subsystems stay at     *)
(* their initial value.                                                    *)
(***************************************************************************)
EXTENDS Integers, Sequences, FiniteSets, TLC

VARIABLES
    \* ---- event bus ----
    channels,   \* EventBus.channels: event type -> ChannelState (kind "None" = no entry)
    nextChan,   \* identity of the next channel instance created
    pc,         \* per caller thread: position inside the bus call it is executing
    call,       \* per caller thread: the call it is inside (NoCall when idle)
    result,     \* the call that returned last, with what it returned
    firstKind,  \* history: the first channel kind ever registered for a type
    rxHanded,   \* history: number of queue receivers returned by subscribe_mpsc, per type
    sent,       \* history: number of publish_mpsc calls started (bounds the queues)
    \* ---- storage engine (one logical path, its temp files, the processes) ----
    dir,        \* volatile directory: file name -> inode (0 = no entry)
    ddir,       \* durable directory (what survives a crash)
    pending,    \* directory operations not yet durable, oldest first
    inode,      \* inode -> [data, synced]: page-cache bytes and bytes known durable
    tmp_counter,\* StorageInner.tmp_counter
    wpc,        \* per writer: position inside write_internal
    wst,        \* per writer: [buf, tmp, off]
    rpc,        \* per reader: position inside read_internal
    rst,        \* per reader: [ino, data, res]
    crashed,    \* TRUE once the process has crashed
    atomicReplace, \* platform: rename over an existing target replaces it atomically
    hadTarget,  \* history: the target existed (with OldBuf) before any write
    fsMode,     \* StorageInner.compression
    started,    \* history: the buffers some write call was given
    \* ---- path sandbox ----
    fsCfg,      \* which symlink the root directory contains
    pathIn,     \* logical path given to resolve
    nsIn,       \* namespace of the view ("" = root handle)
    pathOut,    \* result of Storage::resolve
    shardOut,   \* result of resolve_sharding (NamespacedStorage::resolve)
    \* ---- vault ----
    compression,\* VaultInner.compression
    sealIn,     \* [data, dom, aad, nonce]: arguments of the last seal_bytes
    payload,    \* bytes of the payload at hand (sealed, then possibly tampered)
    tamper,     \* what was done to the payload after sealing
    unsealIn,   \* [dom, aad]: arguments of the last unseal_bytes
    unsealOut,  \* result of the last unseal_bytes
    \* ---- licensing ----
    license,    \* SignedLicense at hand: [data, signature]
    issuedBy,   \* history: [key, data] of the issue that signed it
    machine,    \* the three component fingerprints of the current machine
    licIn,      \* [now, key]: wall clock and public key of the last validate
    licOut,     \* result of the last validate
    \* ---- storage API, one call after the other ----
    disk,       \* files on disk: set of [path, tmp, data]; tmp = 0 for the file itself
    fdirs,      \* directories on disk
    apiOut,     \* the last call made and what it returned
    lastWrite,  \* history: per physical path, the buffer of the last successful write
    \* ---- event bus, delivery ----
    busKind,    \* the channel kind the calls of this run use
    heap,       \* channel objects by id
    reg,        \* the map: event type -> channel id (0: no entry)
    nextObj,    \* id of the next channel created
    thr,        \* per thread: the call in progress, its position, the handle it holds
    rxs,        \* receivers handed out, with what each has received
    ret,        \* the last call that returned and its result
    downs,      \* shutdowns and drops of the bus so far
    alive,      \* a bus handle still exists
    pubCount,   \* events handed to a publish call so far (the next event value)
    tried,      \* history: the queue before and after the last try_send
    \* ---- storage maintenance (temp-file purge) ----
    mclock,     \* the system clock, in seconds
    mdir,       \* the shard directory of the target exists
    mfiles,     \* the files in the shard directory: name and mtime
    mcounter,   \* tmp_counter of the connected handle
    mhandle,    \* "up": a handle is connected, "down": the process is gone, "connecting"
    mcrashes,   \* process crashes so far
    mw,         \* the write in progress: position, temp name, result
    mp          \* the purge in progress: position, captured now, entries to visit, counts

busVars   == <<channels, nextChan, pc, call, result, firstKind, rxHanded, sent>>
fsVars    == <<dir, ddir, pending, inode, tmp_counter, wpc, wst, rpc, rst, crashed,
               atomicReplace, hadTarget, fsMode, started>>
pathVars  == <<fsCfg, pathIn, nsIn, pathOut, shardOut>>
vaultVars == <<compression, sealIn, payload, tamper, unsealIn, unsealOut>>
licVars   == <<license, issuedBy, machine, licIn, licOut>>
fileVars  == <<disk, fdirs, apiOut, lastWrite>>
delVars   == <<busKind, heap, reg, nextObj, thr, rxs, ret, downs, alive, pubCount, tried>>
mtVars    == <<mclock, mdir, mfiles, mcounter, mhandle, mcrashes, mw, mp>>
vars      == <<busVars, fsVars, pathVars, vaultVars, licVars, fileVars, delVars, mtVars>>

\* What an action of one subsystem leaves alone.
BusOnly     == UNCHANGED <<fsVars, pathVars, vaultVars, licVars, fileVars, delVars, mtVars>>
StorageOnly == UNCHANGED <<busVars, pathVars, vaultVars, licVars, fileVars, delVars, mtVars>>
PathOnly    == UNCHANGED <<busVars, fsVars, vaultVars, licVars, fileVars, delVars, mtVars>>
VaultOnly   == UNCHANGED <<busVars, fsVars, pathVars, licVars, fileVars, delVars, mtVars>>
LicenseOnly == UNCHANGED <<busVars, fsVars, pathVars, vaultVars, fileVars, delVars, mtVars>>
\* The storage API calls share the handle's compression mode, platform and
\* temp-file counter with the storage engine.
DeliveryOnly == UNCHANGED <<busVars, fsVars, pathVars, vaultVars, licVars, fileVars, mtVars>>
MaintOnly   == UNCHANGED <<busVars, fsVars, pathVars, vaultVars, licVars, fileVars, delVars>>
FilesOnly   == UNCHANGED <<busVars, pathVars, vaultVars, licVars, delVars, mtVars, dir, ddir, pending,
                           inode, wpc, wst, rpc, rst, crashed, atomicReplace,
                           hadTarget, fsMode, started>>

(***************************************************************************)
(*                               EVENT BUS                                 *)
(***************************************************************************)

\* ---- bounds of the bus model ----
NumThreads  == 2
MaxChannels == 2
MaxCap      == 1
MaxVal      == 1
MaxSends    == 2
MaxSubs     == 1

\* ---- program constants ----
DEFAULT_CAPACITY == 128
MIN_CAPACITY     == 1

Threads == 1..NumThreads
Types   == {"Ping", "Job"}
Vals    == 1..MaxVal
Caps    == 0..MaxCap

NoChannel == [kind |-> "None", capacity |-> 0, id |-> 0, taken |-> FALSE,
              rxStored |-> FALSE, queue |-> <<>>, subs |-> 0, value |-> 0]

NoCall == [op |-> "none", ty |-> "Ping", cap |-> 0, val |-> 0]
NoResult == [call |-> NoCall, kind |-> "none", n |-> 0]
Ok(n) == [kind |-> "Ok", n |-> n]
Err(e) == [kind |-> e, n |-> 0]

\* validate_capacity: capacity below MIN_CAPACITY is InvalidCapacity
validate_capacity(capacity) == capacity >= MIN_CAPACITY

\* A channel created by ensure_channel's or_insert_with closure.
NewChannel(kind, capacity, initial) ==
    [kind |-> kind, capacity |-> capacity, id |-> nextChan, taken |-> FALSE,
     rxStored |-> FALSE, queue |-> <<>>, subs |-> 0, value |-> initial]

\* ChannelHandle::from_state: the downcast of the stored sender to the sender
\* type of the requested kind succeeds only when the stored channel has that kind.
from_state(kind, state) == IF state.kind = kind THEN "Ok" ELSE "TypeMismatch"

\* The kind, capacity and watch initial an operation asks ensure_channel for.
ReqKind(c) ==
    CASE c.op \in {"subscribe", "publish"} -> "Broadcast"
      [] c.op \in {"subscribe_watch", "publish_watch"} -> "Watch"
      [] OTHER -> "Mpsc"

ReqCap(c) == IF c.op = "subscribe" THEN c.cap ELSE DEFAULT_CAPACITY

\* What the caller does with the handle once ensure_channel returned it:
\* tx.subscribe(), sender.send(event), sender.send_replace(arc).
UseHandle(c, st) ==
    CASE c.op = "subscribe"       -> [st EXCEPT !.subs = @ + 1]
      [] c.op = "subscribe_watch" -> [st EXCEPT !.subs = @ + 1]
      [] c.op = "publish"         -> st
      [] c.op = "publish_watch"   -> [st EXCEPT !.value = c.val]

HandleResult(c, st) == IF c.op = "publish" THEN Ok(st.subs) ELSE Ok(0)

\* The call c of thread t returns r.
Finish(t, c, r) ==
    /\ pc' = [pc EXCEPT ![t] = "idle"]
    /\ call' = [call EXCEPT ![t] = NoCall]
    /\ result' = [call |-> c, kind |-> r.kind, n |-> r.n]

Register(ty, kind) ==
    firstKind' = [firstKind EXCEPT ![ty] = IF @ = "None" THEN kind ELSE @]

\* subscribe_with_capacity / subscribe_watch / publish_arc / publish_watch_arc:
\* capacity validation and the read-locked section of ensure_channel.
EnsureRead(t, c) ==
    /\ pc[t] = "idle"
    /\ c.op \in {"subscribe", "subscribe_watch", "publish", "publish_watch"}
    /\ LET existing == channels[c.ty] IN
       IF c.op = "subscribe" /\ ~validate_capacity(c.cap)
       THEN /\ Finish(t, c, Err("InvalidCapacity"))
            /\ UNCHANGED <<channels, nextChan, firstKind, rxHanded, sent>>
       ELSE IF existing.kind = "None"
       THEN /\ nextChan <= MaxChannels
            /\ pc' = [pc EXCEPT ![t] = "ensure_write"]
            /\ call' = [call EXCEPT ![t] = c]
            /\ result' = result
            /\ UNCHANGED <<channels, nextChan, firstKind, rxHanded, sent>>
       ELSE IF existing.kind = ReqKind(c)
       THEN /\ (c.op \in {"subscribe", "subscribe_watch"}) => existing.subs < MaxSubs
            /\ channels' = [channels EXCEPT ![c.ty] = UseHandle(c, existing)]
            /\ Finish(t, c, HandleResult(c, existing))
            /\ UNCHANGED <<nextChan, firstKind, rxHanded, sent>>
       ELSE /\ Finish(t, c, Err("ChannelKindMismatch"))
            /\ UNCHANGED <<channels, nextChan, firstKind, rxHanded, sent>>
    /\ BusOnly

\* The write-locked section of ensure_channel: entry(id).or_insert_with(..),
\* then from_state(kind, entry), then the caller's use of the handle.
EnsureWrite(t) ==
    /\ pc[t] = "ensure_write"
    /\ LET c == call[t]
           existing == channels[c.ty]
           entry == IF existing.kind = "None"
                    THEN NewChannel(ReqKind(c), ReqCap(c), c.val)
                    ELSE existing
       IN /\ IF from_state(ReqKind(c), entry) = "Ok"
             THEN /\ channels' = [channels EXCEPT ![c.ty] = UseHandle(c, entry)]
                  /\ Finish(t, c, HandleResult(c, entry))
             ELSE /\ channels' = channels
                  /\ Finish(t, c, Err("TypeMismatch"))
          /\ IF existing.kind = "None"
             THEN /\ nextChan' = nextChan + 1
                  /\ Register(c.ty, ReqKind(c))
             ELSE UNCHANGED <<nextChan, firstKind>>
          /\ UNCHANGED <<rxHanded, sent>>
    /\ BusOnly

\* sender.try_send(event) of publish_mpsc_arc on the channel found or created.
try_send(st, v) ==
    IF Len(st.queue) >= st.capacity THEN st ELSE [st EXCEPT !.queue = Append(@, v)]

try_send_result(st) ==
    IF Len(st.queue) >= st.capacity THEN Err("ChannelFull") ELSE Ok(0)

\* publish_mpsc_arc: first write-locked section of get_or_create_mpsc
\* (lookup), and try_send when the channel exists.
MpscPubLookup(t, c) ==
    /\ pc[t] = "idle"
    /\ c.op = "publish_mpsc"
    /\ sent < MaxSends
    /\ sent' = sent + 1
    /\ LET existing == channels[c.ty] IN
       IF existing.kind = "None"
       THEN /\ nextChan <= MaxChannels
            /\ pc' = [pc EXCEPT ![t] = "mpsc_pub_insert"]
            /\ call' = [call EXCEPT ![t] = c]
            /\ result' = result
            /\ UNCHANGED <<channels, nextChan, firstKind, rxHanded>>
       ELSE IF existing.kind = "Mpsc"
       THEN /\ channels' = [channels EXCEPT ![c.ty] = try_send(existing, c.val)]
            /\ Finish(t, c, try_send_result(existing))
            /\ UNCHANGED <<nextChan, firstKind, rxHanded>>
       ELSE /\ Finish(t, c, Err("ChannelKindMismatch"))
            /\ UNCHANGED <<channels, nextChan, firstKind, rxHanded>>
    /\ BusOnly

\* publish_mpsc_arc: second write-locked section of get_or_create_mpsc:
\* channels.insert(id, ..) of a fresh channel that keeps its receiver, then try_send.
MpscPubInsert(t) ==
    /\ pc[t] = "mpsc_pub_insert"
    /\ LET c == call[t]
           fresh == [NewChannel("Mpsc", DEFAULT_CAPACITY, 0) EXCEPT !.rxStored = TRUE]
       IN /\ channels' = [channels EXCEPT ![c.ty] = try_send(fresh, c.val)]
          /\ Finish(t, c, try_send_result(fresh))
          /\ nextChan' = nextChan + 1
          /\ Register(c.ty, "Mpsc")
          /\ UNCHANGED <<rxHanded, sent>>
    /\ BusOnly

\* subscribe_mpsc: capacity validation and the first write-locked section of
\* take_mpsc_receiver (lookup; take the stored receiver if it was not taken).
MpscSubLookup(t, c) ==
    /\ pc[t] = "idle"
    /\ c.op = "subscribe_mpsc"
    /\ LET existing == channels[c.ty] IN
       IF ~validate_capacity(c.cap)
       THEN /\ Finish(t, c, Err("InvalidCapacity"))
            /\ UNCHANGED <<channels, nextChan, firstKind, rxHanded, sent>>
       ELSE IF existing.kind = "None"
       THEN /\ nextChan <= MaxChannels
            /\ pc' = [pc EXCEPT ![t] = "mpsc_sub_insert"]
            /\ call' = [call EXCEPT ![t] = c]
            /\ result' = result
            /\ UNCHANGED <<channels, nextChan, firstKind, rxHanded, sent>>
       ELSE IF existing.kind # "Mpsc"
       THEN /\ Finish(t, c, Err("ChannelKindMismatch"))
            /\ UNCHANGED <<channels, nextChan, firstKind, rxHanded, sent>>
       ELSE IF existing.taken
       THEN /\ Finish(t, c, Err("ChannelKindMismatch"))
            /\ UNCHANGED <<channels, nextChan, firstKind, rxHanded, sent>>
       ELSE /\ channels' = [channels EXCEPT ![c.ty] =
                               [existing EXCEPT !.taken = TRUE, !.rxStored = FALSE]]
            /\ IF existing.rxStored
               THEN /\ Finish(t, c, Ok(0))
                    /\ rxHanded' = [rxHanded EXCEPT ![c.ty] = @ + 1]
               ELSE /\ Finish(t, c, Err("ChannelNotFound"))
                    /\ UNCHANGED rxHanded
            /\ UNCHANGED <<nextChan, firstKind, sent>>
    /\ BusOnly

\* subscribe_mpsc: second write-locked section of take_mpsc_receiver:
\* channels.insert(id, ..) of a fresh channel whose receiver is returned.
MpscSubInsert(t) ==
    /\ pc[t] = "mpsc_sub_insert"
    /\ LET c == call[t]
           fresh == [NewChannel("Mpsc", c.cap, 0) EXCEPT !.taken = TRUE]
       IN /\ channels' = [channels EXCEPT ![c.ty] = fresh]
          /\ Finish(t, c, Ok(0))
          /\ nextChan' = nextChan + 1
          /\ Register(c.ty, "Mpsc")
          /\ rxHanded' = [rxHanded EXCEPT ![c.ty] = @ + 1]
          /\ UNCHANGED sent
    /\ BusOnly

\* EventBus::shutdown: clear the map, return how many entries it had.
Shutdown(t) ==
    /\ pc[t] = "idle"
    /\ LET count == Cardinality({ty \in Types : channels[ty].kind # "None"}) IN
       /\ channels' = [ty \in Types |-> NoChannel]
       /\ Finish(t, [NoCall EXCEPT !.op = "shutdown"], Ok(count))
    /\ UNCHANGED <<nextChan, firstKind, rxHanded, sent>>
    /\ BusOnly

\* The arguments a caller can pass: a capacity where the operation takes one,
\* an event value (or watch initial) where it takes one.
Calls(ops) ==
    { c \in [op : ops, ty : Types, cap : Caps, val : Vals \cup {0}] :
        /\ (c.op \in {"subscribe", "subscribe_mpsc"}) <=> (c.val = 0)
        /\ (c.op \notin {"subscribe", "subscribe_mpsc"}) => (c.cap = 0) }

BusInit ==
    /\ channels = [ty \in Types |-> NoChannel]
    /\ nextChan = 1
    /\ pc = [t \in Threads |-> "idle"]
    /\ call = [t \in Threads |-> NoCall]
    /\ result = NoResult
    /\ firstKind = [ty \in Types |-> "None"]
    /\ rxHanded = [ty \in Types |-> 0]
    /\ sent = 0

BusNext ==
    \/ \E t \in Threads :
         \E c \in Calls({"subscribe", "subscribe_watch", "publish", "publish_watch"}) :
            EnsureRead(t, c)
    \/ \E t \in Threads : EnsureWrite(t)
    \/ \E t \in Threads : \E c \in Calls({"publish_mpsc"}) : MpscPubLookup(t, c)
    \/ \E t \in Threads : MpscPubInsert(t)
    \/ \E t \in Threads : \E c \in Calls({"subscribe_mpsc"}) : MpscSubLookup(t, c)
    \/ \E t \in Threads : MpscSubInsert(t)
    \/ \E t \in Threads : Shutdown(t)

(***************************************************************************)
(*              EVENT BUS: channels, receivers and delivery                *)
(***************************************************************************)

\* The channel objects live on the heap: the map holds one sender per event
\* type, a call in flight holds a clone of it, a receiver refers to its
\* channel whether or not the map still does.  All calls of one run are of
\* one channel kind (busKind).

\* ---- bounds of the delivery model ----
MaxPub  == 4      \* events published in one run
LivePub == 2      \* events published in one run of the fair specification
MaxObjs == 2      \* channels created in one run
MaxRx   == 1      \* receivers handed out in one run
MaxBusCap == 3    \* largest capacity a subscriber asks for

ObjIds  == 1..MaxObjs
RxIds   == 1..MaxRx
BusCaps == 1..MaxBusCap
BusKinds == {"Broadcast", "Mpsc", "Watch"}

NoObj == [kind |-> "None", ty |-> "Ping", cap |-> 0, buf |-> <<>>, sent |-> 0,
          senders |-> 0, rx |-> "none", taken |-> FALSE, log |-> <<>>]
NoThr == [pc |-> "idle", op |-> "none", ty |-> "Ping", cap |-> 0, val |-> 0, obj |-> 0]
NoLag == [got |-> 0, latest |-> 0, skipped |-> 0]
NoRx  == [obj |-> 0, next |-> 0, start |-> 0, got |-> <<>>, closed |-> FALSE,
          skipped |-> 0, lagged |-> FALSE, relag |-> FALSE, afterLag |-> NoLag,
          live |-> FALSE, early |-> FALSE, behind |-> 0]
NoRet == [op |-> "none", res |-> "none", n |-> 0]

\* Receivers alive on channel o (broadcast and watch count them; an mpsc
\* channel has its one receiver stored, held or dropped).
Receivers(o) == { r \in RxIds : rxs[r].live /\ rxs[r].obj = o }

\* A channel as the closures of ensure_channel and the mpsc helpers create it;
\* the map holds its sender.
Channel(kind, ty, capacity, initial) ==
    [NoObj EXCEPT !.kind = kind, !.ty = ty, !.cap = capacity, !.senders = 1,
                  !.buf = IF kind = "Watch" THEN <<initial>> ELSE <<>>]

\* The map entry of a type is dropped (cleared or replaced by an insert): its
\* sender goes, and with it the mpsc receiver the entry still stores.
DropEntry(o) ==
    [o EXCEPT !.senders = @ - 1,
              !.rx = IF @ = "stored" THEN "dropped" ELSE @]

\* usize::next_power_of_two: tokio's broadcast channel rounds the capacity it
\* is given up to a power of two and allocates that many slots.
RECURSIVE PowerFrom(_, _)
PowerFrom(p, n) == IF p >= n THEN p ELSE PowerFrom(2 * p, n)
next_power_of_two(n) == PowerFrom(1, n)

\* A channel that keeps a value sent while nobody is subscribed.
broadcast_send_keep(o, v, receivers) ==
    LET all == Append(o.buf, v) IN
    [o EXCEPT !.buf = IF Len(all) > next_power_of_two(o.cap) THEN Tail(all) ELSE all,
              !.sent = @ + 1, !.log = Append(@, v)]

\* tokio broadcast::Sender::send: without a receiver the value is returned to
\* the caller; otherwise it takes the next position and the oldest value
\* leaves once every slot is in use.
broadcast_send(o, v, receivers) ==
    IF receivers = 0 THEN o
    ELSE LET all == Append(o.buf, v) IN
         [o EXCEPT !.buf = IF Len(all) > next_power_of_two(o.cap) THEN Tail(all) ELSE all,
                   !.sent = @ + 1, !.log = Append(@, v)]

\* tokio mpsc::Sender::try_send: Closed without a receiver, Full at capacity.
mpsc_try_send(o, v) ==
    IF o.rx = "dropped" \/ Len(o.buf) >= o.cap THEN o
    ELSE [o EXCEPT !.buf = Append(@, v), !.sent = @ + 1, !.log = Append(@, v)]

\* A cell whose version moves while the value stays.
watch_send_stale(o, v) == [o EXCEPT !.sent = @ + 1]

\* tokio watch::Sender::send_replace: the value is replaced, the version moves.
watch_send_replace(o, v) == [o EXCEPT !.buf = <<v>>, !.sent = @ + 1]

Return(t, op, res, n) ==
    /\ thr' = [thr EXCEPT ![t] = NoThr]
    /\ ret' = [op |-> op, res |-> res, n |-> n]

DReqKind(op) ==
    CASE op \in {"subscribe", "publish"} -> "Broadcast"
      [] op \in {"subscribe_watch", "publish_watch"} -> "Watch"
      [] OTHER -> "Mpsc"

\* The calls of the run's kind; a publish carries the next event value.
DCalls ==
    { c \in [op : {"subscribe", "publish", "subscribe_watch", "publish_watch",
                   "subscribe_mpsc", "publish_mpsc"},
             ty : Types, cap : BusCaps] :
        /\ DReqKind(c.op) = busKind
        /\ (c.op \notin {"subscribe", "subscribe_mpsc"}) => (c.cap = MIN_CAPACITY) }

\* Receiver slots not handed out yet, and the subscribe calls in flight.
FreeRx == { r \in RxIds : ~rxs[r].live /\ rxs[r].obj = 0 }
PendingSubs == { t \in Threads : thr[t].pc # "idle" /\ ~(thr[t].op \in
                   {"publish", "publish_watch", "publish_mpsc"}) }

IsPublish(op) == op \in {"publish", "publish_watch", "publish_mpsc"}

\* The initial value a subscribe_watch call passes: no published event.
WatchInitial == MaxPub + 1

Begin(t, c, pcNew, o) ==
    thr' = [thr EXCEPT ![t] = [pc |-> pcNew, op |-> c.op, ty |-> c.ty, cap |-> c.cap,
                               val |-> IF IsPublish(c.op) THEN pubCount ELSE WatchInitial,
                               obj |-> o]]

CallGuard(t, c) ==
    /\ alive /\ thr[t].pc = "idle"
    /\ IsPublish(c.op) => pubCount < MaxPub
    /\ ~IsPublish(c.op) => Cardinality(FreeRx) > Cardinality(PendingSubs)
    /\ pubCount' = IF IsPublish(c.op) THEN pubCount + 1 ELSE pubCount

\* ensure_channel, read-locked section: an existing channel's sender is cloned.
DEnsureRead(t, c) ==
    /\ c.op \in {"subscribe", "publish", "subscribe_watch", "publish_watch"}
    /\ CallGuard(t, c)
    /\ IF reg[c.ty] = 0
       THEN /\ nextObj <= MaxObjs
            /\ Begin(t, c, "ensure_write", 0)
            /\ UNCHANGED heap
       ELSE /\ Begin(t, c, "use", reg[c.ty])
            /\ heap' = [heap EXCEPT ![reg[c.ty]].senders = @ + 1]
    /\ UNCHANGED <<reg, nextObj, rxs, ret, downs, alive, busKind, tried>>
    /\ DeliveryOnly

\* ensure_channel, write-locked section: entry(id).or_insert_with(..), then
\* from_state clones the sender of the entry.
DEnsureWrite(t) ==
    /\ thr[t].pc = "ensure_write"
    /\ LET c == thr[t] IN
       IF reg[c.ty] # 0
       THEN /\ heap' = [heap EXCEPT ![reg[c.ty]].senders = @ + 1]
            /\ thr' = [thr EXCEPT ![t].pc = "use", ![t].obj = reg[c.ty]]
            /\ UNCHANGED <<reg, nextObj>>
       ELSE /\ nextObj <= MaxObjs
            /\ heap' = [heap EXCEPT ![nextObj] =
                          [Channel(DReqKind(c.op), c.ty,
                                   IF c.op = "subscribe" THEN c.cap ELSE DEFAULT_CAPACITY,
                                   c.val) EXCEPT !.senders = 2]]
            /\ reg' = [reg EXCEPT ![c.ty] = nextObj]
            /\ nextObj' = nextObj + 1
            /\ thr' = [thr EXCEPT ![t].pc = "use", ![t].obj = nextObj]
    /\ UNCHANGED <<rxs, ret, downs, alive, busKind, pubCount, tried>>
    /\ DeliveryOnly

\* After ensure_channel returned the handle: tx.subscribe(), sender.send(event)
\* or sender.send_replace(arc); the handle is dropped when the call returns.
DUse(t) ==
    /\ thr[t].pc = "use"
    /\ LET c == thr[t]
           o == heap[c.obj]
           r == CHOOSE r \in FreeRx : TRUE
       IN CASE c.op \in {"subscribe", "subscribe_watch"} ->
                 /\ rxs' = [rxs EXCEPT ![r] = [NoRx EXCEPT !.obj = c.obj, !.next = o.sent,
                                                          !.start = o.sent,
                                                          !.live = TRUE]]
                 /\ heap' = [heap EXCEPT ![c.obj].senders = @ - 1]
                 /\ Return(t, c.op, "Ok", r)
            [] c.op = "publish" ->
                 /\ heap' = [heap EXCEPT ![c.obj] =
                               [broadcast_send(o, c.val, Cardinality(Receivers(c.obj)))
                                   EXCEPT !.senders = @ - 1]]
                 /\ rxs' = [q \in RxIds |->
                              IF q \in Receivers(c.obj) /\ rxs[q].got = <<>>
                              THEN [rxs[q] EXCEPT !.behind = @ + 1] ELSE rxs[q]]
                 /\ Return(t, c.op, "Ok", Cardinality(Receivers(c.obj)))
            [] OTHER ->
                 /\ heap' = [heap EXCEPT ![c.obj] =
                               [watch_send_replace(o, c.val) EXCEPT !.senders = @ - 1]]
                 /\ rxs' = rxs
                 /\ Return(t, c.op, "Ok", 0)
    /\ UNCHANGED <<reg, nextObj, downs, alive, busKind, pubCount, tried>>
    /\ DeliveryOnly

\* get_or_create_mpsc, first write-locked section: clone the sender found.
DMpscPubLookup(t, c) ==
    /\ c.op = "publish_mpsc"
    /\ CallGuard(t, c)
    /\ IF reg[c.ty] = 0
       THEN /\ nextObj <= MaxObjs
            /\ Begin(t, c, "mpsc_pub_insert", 0)
            /\ UNCHANGED heap
       ELSE /\ Begin(t, c, "try_send", reg[c.ty])
            /\ heap' = [heap EXCEPT ![reg[c.ty]].senders = @ + 1]
    /\ UNCHANGED <<reg, nextObj, rxs, ret, downs, alive, busKind, tried>>
    /\ DeliveryOnly

\* get_or_create_mpsc, second write-locked section: channels.insert(id, ..) of
\* a fresh channel that stores its receiver; an entry made meanwhile is dropped.
DMpscPubInsert(t) ==
    /\ thr[t].pc = "mpsc_pub_insert"
    /\ nextObj <= MaxObjs
    /\ LET c == thr[t]
           fresh == [Channel("Mpsc", c.ty, DEFAULT_CAPACITY, 0) EXCEPT !.senders = 2,
                                                                !.rx = "stored"]
       IN /\ heap' = [o \in ObjIds |->
                        IF o = nextObj THEN fresh
                        ELSE IF o = reg[c.ty] THEN DropEntry(heap[o]) ELSE heap[o]]
          /\ reg' = [reg EXCEPT ![c.ty] = nextObj]
          /\ thr' = [thr EXCEPT ![t].pc = "try_send", ![t].obj = nextObj]
    /\ nextObj' = nextObj + 1
    /\ UNCHANGED <<rxs, ret, downs, alive, busKind, pubCount, tried>>
    /\ DeliveryOnly

\* publish_mpsc_arc: sender.try_send(event); every error becomes ChannelFull.
DTrySend(t) ==
    /\ thr[t].pc = "try_send"
    /\ LET c == thr[t]
           o == heap[c.obj]
           after == mpsc_try_send(o, c.val)
       IN /\ heap' = [heap EXCEPT ![c.obj] = [after EXCEPT !.senders = @ - 1]]
          /\ tried' = [obj |-> c.obj, before |-> o.buf, after |-> after.buf,
                       val |-> c.val, cap |-> o.cap,
                       res |-> IF after = o THEN "ChannelFull" ELSE "Ok"]
          /\ Return(t, c.op, IF after = o THEN "ChannelFull" ELSE "Ok", 0)
    /\ UNCHANGED <<reg, nextObj, rxs, downs, alive, busKind, pubCount>>
    /\ DeliveryOnly

\* take_mpsc_receiver, first write-locked section.
DMpscSubLookup(t, c) ==
    /\ c.op = "subscribe_mpsc"
    /\ CallGuard(t, c)
    /\ LET o == reg[c.ty]
           r == CHOOSE r \in FreeRx : TRUE
       IN IF o = 0
          THEN /\ nextObj <= MaxObjs
               /\ Begin(t, c, "mpsc_sub_insert", 0)
               /\ UNCHANGED <<heap, rxs, ret>>
          ELSE IF heap[o].taken
          THEN /\ Return(t, c.op, "ChannelKindMismatch", 0)
               /\ UNCHANGED <<heap, rxs>>
          ELSE /\ heap' = [heap EXCEPT ![o].taken = TRUE, ![o].rx = "held"]
               /\ rxs' = [rxs EXCEPT ![r] = [NoRx EXCEPT !.obj = o, !.live = TRUE]]
               /\ Return(t, c.op, "Ok", r)
    /\ UNCHANGED <<reg, nextObj, downs, alive, busKind, tried>>
    /\ DeliveryOnly

\* take_mpsc_receiver, second write-locked section: channels.insert(id, ..) of
\* a fresh channel whose receiver is returned.
DMpscSubInsert(t) ==
    /\ thr[t].pc = "mpsc_sub_insert"
    /\ nextObj <= MaxObjs
    /\ LET c == thr[t]
           r == CHOOSE r \in FreeRx : TRUE
           fresh == [Channel("Mpsc", c.ty, c.cap, 0) EXCEPT !.taken = TRUE, !.rx = "held"]
       IN /\ heap' = [o \in ObjIds |->
                        IF o = nextObj THEN fresh
                        ELSE IF o = reg[c.ty] THEN DropEntry(heap[o]) ELSE heap[o]]
          /\ reg' = [reg EXCEPT ![c.ty] = nextObj]
          /\ rxs' = [rxs EXCEPT ![r] = [NoRx EXCEPT !.obj = nextObj, !.live = TRUE]]
          /\ Return(t, c.op, "Ok", r)
    /\ nextObj' = nextObj + 1
    /\ UNCHANGED <<downs, alive, busKind, pubCount, tried>>
    /\ DeliveryOnly

\* The map is emptied while its entries are kept alive elsewhere.
ClearMap_leak ==
    /\ heap' = heap
    /\ reg' = [ty \in Types |-> 0]
    /\ rxs' = [r \in RxIds |-> [rxs[r] EXCEPT !.early = rxs[r].live]]
    /\ downs' = downs + 1

\* The map is emptied: every entry is dropped.
ClearMap ==
    /\ heap' = [o \in ObjIds |->
                  IF \E ty \in Types : reg[ty] = o THEN DropEntry(heap[o]) ELSE heap[o]]
    /\ reg' = [ty \in Types |-> 0]
    /\ rxs' = [r \in RxIds |-> [rxs[r] EXCEPT !.early = rxs[r].live]]
    /\ downs' = downs + 1

\* EventBus::shutdown: channels.clear() under the write lock, return the count.
DShutdown(t) ==
    /\ alive /\ thr[t].pc = "idle"
    /\ downs = 0
    /\ ClearMap
    /\ Return(t, "shutdown", "Ok", Cardinality({ty \in Types : reg[ty] # 0}))
    /\ UNCHANGED <<nextObj, alive, busKind, pubCount, tried>>
    /\ DeliveryOnly

\* The last EventBus handle is dropped (no call is running on it): the map
\* and its senders go with it.
DDropBus ==
    /\ alive /\ \A t \in Threads : thr[t].pc = "idle"
    /\ downs = 0
    /\ ClearMap
    /\ alive' = FALSE
    /\ UNCHANGED <<thr, ret, nextObj, busKind, pubCount, tried>>
    /\ DeliveryOnly

\* One turn of the loop of EventReceiverExt::recv on a broadcast receiver: the
\* inner recv reports Lagged (the receiver moves to the oldest value retained
\* and the loop adds to skipped), a value (returned), or Closed (None).
broadcast_recv(rx, o) ==
    LET oldest == o.sent - Len(o.buf) IN
    IF rx.next < oldest
    THEN [rx EXCEPT !.skipped = @ + (oldest - rx.next), !.next = oldest,
                    !.lagged = TRUE, !.relag = (rx.got # <<>>)]
    ELSE IF rx.next < o.sent
    THEN LET event == o.buf[rx.next - oldest + 1] IN
         [rx EXCEPT !.got = Append(@, event), !.next = @ + 1, !.skipped = 0,
                    !.afterLag = IF rx.skipped > 0
                                 THEN [got |-> event, latest |-> o.buf[Len(o.buf)],
                                       skipped |-> rx.skipped]
                                 ELSE @]
    ELSE [rx EXCEPT !.closed = TRUE]

\* EventReceiverExt::recv on a watch receiver: changed(), then borrow().clone().
watch_recv(rx, o) ==
    IF rx.next # o.sent
    THEN [rx EXCEPT !.got = Append(@, o.buf[1]), !.next = o.sent]
    ELSE [rx EXCEPT !.closed = TRUE]

\* EventReceiverExt::recv on an mpsc receiver: the head of the queue, or None.
mpsc_recv(rx, o) ==
    IF o.buf # <<>> THEN [rx EXCEPT !.got = Append(@, Head(o.buf))]
    ELSE [rx EXCEPT !.closed = TRUE]

\* A receive completes: with what is buffered, or with closure once every
\* sender is gone; otherwise it stays pending.
DRecv(r) ==
    /\ rxs[r].live /\ ~rxs[r].closed
    /\ LET rx == rxs[r]
           o  == heap[rx.obj]
           ready == CASE o.kind = "Broadcast" -> rx.next < o.sent
                      [] o.kind = "Watch"     -> rx.next # o.sent
                      [] OTHER                -> o.buf # <<>>
       IN /\ ready \/ o.senders = 0
          /\ rxs' = [rxs EXCEPT ![r] =
                        CASE o.kind = "Broadcast" -> broadcast_recv(rx, o)
                          [] o.kind = "Watch"     -> watch_recv(rx, o)
                          [] OTHER                -> mpsc_recv(rx, o)]
          /\ heap' = IF o.kind = "Mpsc" /\ o.buf # <<>>
                     THEN [heap EXCEPT ![rx.obj].buf = Tail(@)] ELSE heap
    /\ UNCHANGED <<reg, nextObj, thr, ret, downs, alive, busKind, pubCount, tried>>
    /\ DeliveryOnly

NoTry == [obj |-> 0, before |-> <<>>, after |-> <<>>, val |-> 0, cap |-> 0,
          res |-> "none"]

\* The bus after EventBus::new(); the events of the run are numbered from
\* first.
DeliveryInitIn(kinds, first) ==
    /\ busKind \in kinds
    /\ heap = [o \in ObjIds |-> NoObj]
    /\ reg = [ty \in Types |-> 0]
    /\ nextObj = 1
    /\ thr = [t \in Threads |-> NoThr]
    /\ rxs = [r \in RxIds |-> NoRx]
    /\ ret = NoRet
    /\ downs = 0
    /\ alive = TRUE
    /\ pubCount = first
    /\ tried = NoTry

DeliveryInit == DeliveryInitIn(BusKinds, 0)
DeliveryInitLive == DeliveryInitIn(BusKinds, MaxPub - LivePub)
DeliveryIdle == DeliveryInitIn({"Broadcast"}, 0)

DeliveryNext ==
    \/ \E t \in Threads : \E c \in DCalls : DEnsureRead(t, c)
    \/ \E t \in Threads : DEnsureWrite(t)
    \/ \E t \in Threads : DUse(t)
    \/ \E t \in Threads : \E c \in DCalls : DMpscPubLookup(t, c)
    \/ \E t \in Threads : DMpscPubInsert(t)
    \/ \E t \in Threads : DTrySend(t)
    \/ \E t \in Threads : \E c \in DCalls : DMpscSubLookup(t, c)
    \/ \E t \in Threads : DMpscSubInsert(t)
    \/ \E t \in Threads : DShutdown(t)
    \/ DDropBus
    \/ \E r \in RxIds : DRecv(r)

(***************************************************************************)
(*                      BYTES AND LZ4 (size-prepended)                     *)
(***************************************************************************)

\* u32 little-endian, as lz4_flex::compress_prepend_size writes the length.
LE32(n) == <<n % 256, (n \div 256) % 256, (n \div 65536) % 256, (n \div 16777216) % 256>>

FromLE32(b) == b[1] + 256 * b[2] + 65536 * b[3] + 16777216 * b[4]

\* lz4_flex::compress_prepend_size on inputs below 13 bytes (LZ4 emits no
\* match for them): length prefix, one token whose high nibble is the literal
\* count, then the literals.
compress_prepend_size(data) == LE32(Len(data)) \o <<Len(data) * 16>> \o data

\* lz4_flex::decompress_size_prepended restricted to literal-only blocks;
\* ok = FALSE stands for a DecompressError.
DecompressErr == [ok |-> FALSE, data |-> <<>>]

decompress_size_prepended(b) ==
    IF Len(b) < 5 THEN DecompressErr
    ELSE LET size  == FromLE32(b)
             token == b[5]
             lit   == token \div 16
             rest  == SubSeq(b, 6, Len(b))
         IN IF lit = 15 \/ token % 16 # 0 \/ Len(rest) # lit \/ lit > size
            THEN DecompressErr
            ELSE [ok |-> TRUE, data |-> rest]

(***************************************************************************)
(*              STORAGE ENGINE: atomic write, read, crash                  *)
(***************************************************************************)

\* ---- bounds of the storage model ----
NumWriters == 2
NumReaders == 1
MaxTmp     == 2      \* write calls made in one run (values the counter hands out)
BufLen     == 2      \* length of the buffers written

Writers == 1..NumWriters
Readers == 1..NumReaders

\* The buffers the writers alternate between, and the content the file had
\* before (when it existed).
Buf(x) == [i \in 1..BufLen |-> x]
Buffers == {Buf(0), Buf(255)}
OldBuf == Buf(7)

\* File names in the directory of the resolved path: 0 is the target,
\* n >= 1 is "<file_name>.mhubtmp.<n>".
TargetName == 0
Names == 0..(MaxTmp + NumWriters)
Inodes == 1..(MaxTmp + NumWriters + 1)
\* The file named n has inode n + 1: the target that exists before any write
\* has the first one, each temp file its own.
OldInode == TargetName + 1

\* A writer that skips the temp file and writes into the target itself.
unique_tmp_path_in_place(target, counter) == target

\* A temp name that leaves the counter value out.
unique_tmp_path_fixed(target, counter) == target + 1

\* unique_tmp_path: the sibling of the target named after the counter value.
unique_tmp_path(target, counter) == counter

\* A handle that stores the buffer as it is whatever its mode.
fsCompress_raw(mode, data) == data

\* Compression::compress / Compression::decompress of the storage handle.
StorageModes == {"None", "Lz4"}
fsCompress(mode, data) == IF mode = "None" THEN data ELSE compress_prepend_size(data)
fsDecompress(mode, data) ==
    IF mode = "None" THEN [ok |-> TRUE, data |-> data] ELSE decompress_size_prepended(data)

NoInode == [data |-> <<>>, synced |-> <<>>]
IdleW == [buf |-> <<>>, tmp |-> 0, off |-> 0, res |-> "none"]
IdleR == [ino |-> 0, data |-> <<>>, res |-> "none", out |-> <<>>]

\* A directory operation applied to a directory map.
ApplyOp(d, o) ==
    CASE o.op = "link"   -> [d EXCEPT ![o.to] = o.ino]
      [] o.op = "unlink" -> [d EXCEPT ![o.to] = 0]
      [] o.op = "rename" -> IF o.from = o.to THEN d
                            ELSE [d EXCEPT ![o.to] = d[o.from], ![o.from] = 0]

DirOp(o) ==
    /\ dir' = ApplyOp(dir, o)
    /\ pending' = Append(pending, o)

WFinish(w, r) ==
    /\ wpc' = [wpc EXCEPT ![w] = "idle"]
    /\ wst' = [wst EXCEPT ![w].res = r]

\* write_internal: resolve, create_dir_all, unique_tmp_path (fetch_add), compress.
WBegin(w, b) ==
    /\ ~crashed /\ wpc[w] = "idle"
    /\ tmp_counter <= MaxTmp
    /\ wst' = [wst EXCEPT ![w] = [buf |-> fsCompress(fsMode, b),
                                  tmp |-> unique_tmp_path(TargetName, tmp_counter),
                                  off |-> 0, res |-> "none"]]
    /\ tmp_counter' = tmp_counter + 1
    /\ started' = started \cup {b}
    /\ wpc' = [wpc EXCEPT ![w] = "create"]
    /\ UNCHANGED <<dir, ddir, pending, inode, rpc, rst, crashed, atomicReplace,
                   hadTarget, fsMode>>
    /\ StorageOnly

\* write_internal: OpenOptions::new().create_new(true).write(true).open(&temp)
WCreate(w) ==
    /\ ~crashed /\ wpc[w] = "create"
    /\ LET tmp == wst[w].tmp IN
       IF dir[tmp] # 0
       THEN /\ WFinish(w, "Io")
            /\ UNCHANGED <<dir, pending, inode>>
       ELSE /\ inode' = [inode EXCEPT ![tmp + 1] = NoInode]
            /\ DirOp([op |-> "link", from |-> tmp, to |-> tmp, ino |-> tmp + 1])
            /\ wpc' = [wpc EXCEPT ![w] = "write"]
            /\ UNCHANGED wst
    /\ UNCHANGED <<ddir, tmp_counter, rpc, rst, crashed, atomicReplace, hadTarget,
                   fsMode, started>>
    /\ StorageOnly

\* write_internal: file.write_all(&final_data), one byte reaching the file per step
WWrite(w) ==
    /\ ~crashed /\ wpc[w] = "write"
    /\ LET st == wst[w] IN
       /\ inode' = [inode EXCEPT ![st.tmp + 1].data = Append(@, st.buf[st.off + 1])]
       /\ wst' = [wst EXCEPT ![w].off = @ + 1]
       /\ wpc' = [wpc EXCEPT ![w] = IF st.off + 1 = Len(st.buf) THEN "sync" ELSE "write"]
    /\ UNCHANGED <<dir, ddir, pending, tmp_counter, rpc, rst, crashed, atomicReplace,
                   hadTarget, fsMode, started>>
    /\ StorageOnly

\* write_internal: file.sync_all()
WSync(w) ==
    /\ ~crashed /\ wpc[w] = "sync"
    /\ inode' = [inode EXCEPT ![wst[w].tmp + 1].synced = inode[wst[w].tmp + 1].data]
    /\ wpc' = [wpc EXCEPT ![w] = "rename"]
    /\ UNCHANGED <<dir, ddir, pending, tmp_counter, wst, rpc, rst, crashed,
                   atomicReplace, hadTarget, fsMode, started>>
    /\ StorageOnly

\* write_internal: fs::rename(&temp, &resolved); on a platform without atomic
\* replace an existing target makes it fail with AlreadyExists.
WRename(w) ==
    /\ ~crashed /\ wpc[w] = "rename"
    /\ LET tmp == wst[w].tmp IN
       IF dir[tmp] = 0
       THEN /\ WFinish(w, "Io")
            /\ UNCHANGED <<dir, pending>>
       ELSE IF dir[TargetName] # 0 /\ ~atomicReplace
       THEN /\ wpc' = [wpc EXCEPT ![w] = "remove"]
            /\ UNCHANGED <<dir, pending, wst>>
       ELSE /\ DirOp([op |-> "rename", from |-> tmp, to |-> TargetName, ino |-> 0])
            /\ wpc' = [wpc EXCEPT ![w] = "syncdir"]
            /\ UNCHANGED wst
    /\ UNCHANGED <<ddir, inode, tmp_counter, rpc, rst, crashed, atomicReplace,
                   hadTarget, fsMode, started>>
    /\ StorageOnly

\* write_internal, AlreadyExists branch: fs::remove_file(&resolved)
WRemove(w) ==
    /\ ~crashed /\ wpc[w] = "remove"
    /\ IF dir[TargetName] = 0
       THEN /\ WFinish(w, "Io")
            /\ UNCHANGED <<dir, pending>>
       ELSE /\ DirOp([op |-> "unlink", from |-> TargetName, to |-> TargetName, ino |-> 0])
            /\ wpc' = [wpc EXCEPT ![w] = "rename2"]
            /\ UNCHANGED wst
    /\ UNCHANGED <<ddir, inode, tmp_counter, rpc, rst, crashed, atomicReplace,
                   hadTarget, fsMode, started>>
    /\ StorageOnly

\* write_internal, AlreadyExists branch: the second fs::rename(&temp, &resolved)
WRenameAgain(w) ==
    /\ ~crashed /\ wpc[w] = "rename2"
    /\ LET tmp == wst[w].tmp IN
       IF dir[tmp] = 0 \/ dir[TargetName] # 0
       THEN /\ WFinish(w, "Io")
            /\ UNCHANGED <<dir, pending>>
       ELSE /\ DirOp([op |-> "rename", from |-> tmp, to |-> TargetName, ino |-> 0])
            /\ wpc' = [wpc EXCEPT ![w] = "syncdir"]
            /\ UNCHANGED wst
    /\ UNCHANGED <<ddir, inode, tmp_counter, rpc, rst, crashed, atomicReplace,
                   hadTarget, fsMode, started>>
    /\ StorageOnly

\* write_internal: Self::sync_dir(parent), then Ok(())
WSyncDir(w) ==
    /\ ~crashed /\ wpc[w] = "syncdir"
    /\ ddir' = dir
    /\ pending' = <<>>
    /\ WFinish(w, "Ok")
    /\ UNCHANGED <<dir, inode, tmp_counter, rpc, rst, crashed, atomicReplace,
                   hadTarget, fsMode, started>>
    /\ StorageOnly

\* The file system makes the oldest pending directory operation durable.
Writeback ==
    /\ ~crashed /\ pending # <<>>
    /\ ddir' = ApplyOp(ddir, Head(pending))
    /\ pending' = Tail(pending)
    /\ UNCHANGED <<dir, inode, tmp_counter, wpc, wst, rpc, rst, crashed, atomicReplace,
                   hadTarget, fsMode, started>>
    /\ StorageOnly

\* The process dies at whatever step every call is in.  A process crash keeps
\* the file system as it is; a system crash keeps only what is durable.
Crash(system) ==
    /\ ~crashed
    /\ \E w \in Writers : wpc[w] # "idle"
    /\ crashed' = TRUE
    /\ wpc' = [w \in Writers |-> "dead"]
    /\ rpc' = [r \in Readers |-> "dead"]
    /\ IF system
       THEN /\ dir' = ddir
            /\ inode' = [i \in Inodes |-> [inode[i] EXCEPT !.data = inode[i].synced]]
       ELSE UNCHANGED <<dir, inode>>
    /\ pending' = <<>>
    /\ UNCHANGED <<ddir, tmp_counter, wst, rst, atomicReplace, hadTarget, fsMode, started>>
    /\ StorageOnly

\* read_internal: resolve, then fs::read opens the file (NotFound -> FileNotFound)
ROpen(r) ==
    /\ ~crashed /\ rpc[r] = "idle"
    /\ IF dir[TargetName] = 0
       THEN /\ rst' = [rst EXCEPT ![r] = [IdleR EXCEPT !.res = "FileNotFound"]]
            /\ UNCHANGED rpc
       ELSE /\ rst' = [rst EXCEPT ![r] = [IdleR EXCEPT !.ino = dir[TargetName]]]
            /\ rpc' = [rpc EXCEPT ![r] = "read"]
    /\ UNCHANGED <<dir, ddir, pending, inode, tmp_counter, wpc, wst, crashed,
                   atomicReplace, hadTarget, fsMode, started>>
    /\ StorageOnly

\* read_internal: fs::read reads the open file to its end, one byte per step,
\* then self.inner.compression.decompress(&data)
RRead(r) ==
    /\ ~crashed /\ rpc[r] = "read"
    /\ LET st == rst[r]
           file == inode[st.ino].data
       IN IF Len(st.data) < Len(file)
          THEN /\ rst' = [rst EXCEPT ![r].data = Append(@, file[Len(st.data) + 1])]
               /\ UNCHANGED rpc
          ELSE /\ LET d == fsDecompress(fsMode, st.data) IN
                  rst' = [rst EXCEPT ![r].res = IF d.ok THEN "Ok" ELSE "Decompress",
                                     ![r].out = d.data]
               /\ rpc' = [rpc EXCEPT ![r] = "idle"]
    /\ UNCHANGED <<dir, ddir, pending, inode, tmp_counter, wpc, wst, crashed,
                   atomicReplace, hadTarget, fsMode, started>>
    /\ StorageOnly

StorageInitIn(modes, platforms, targets) ==
    /\ fsMode \in modes
    /\ atomicReplace \in platforms
    /\ hadTarget \in targets
    /\ dir = [n \in Names |-> IF n = TargetName /\ hadTarget THEN OldInode ELSE 0]
    /\ ddir = dir
    /\ pending = <<>>
    /\ inode = [i \in Inodes |->
                  IF i = OldInode /\ hadTarget
                  THEN [data |-> fsCompress(fsMode, OldBuf), synced |-> fsCompress(fsMode, OldBuf)]
                  ELSE NoInode]
    /\ tmp_counter = 1
    /\ wpc = [w \in Writers |-> "idle"]
    /\ wst = [w \in Writers |-> IdleW]
    /\ rpc = [r \in Readers |-> "idle"]
    /\ rst = [r \in Readers |-> IdleR]
    /\ crashed = FALSE
    /\ started = {}

StorageInit == StorageInitIn(StorageModes, BOOLEAN, BOOLEAN)
StorageIdle == StorageInitIn({"None"}, {TRUE}, {FALSE})

StorageNext ==
    \/ \E w \in Writers : \E b \in Buffers : WBegin(w, b)
    \/ \E w \in Writers : WCreate(w)
    \/ \E w \in Writers : WWrite(w)
    \/ \E w \in Writers : WSync(w)
    \/ \E w \in Writers : WRename(w)
    \/ \E w \in Writers : WRemove(w)
    \/ \E w \in Writers : WRenameAgain(w)
    \/ \E w \in Writers : WSyncDir(w)
    \/ Writeback
    \/ \E system \in BOOLEAN : Crash(system)
    \/ \E r \in Readers : ROpen(r)
    \/ \E r \in Readers : RRead(r)

(***************************************************************************)
(*                             PATH SANDBOX                                *)
(***************************************************************************)

\* ---- bound of the path model ----
MaxPathLen == 4      \* components in a logical path

\* A path is a sequence of components, a component a sequence of characters.
ParentDir == <<".", ".">>
CurDir    == <<".">>
RootDir   == <<"/">>
nm_a      == <<"a">>                    \* a directory; also a namespace name
nm_b      == <<"b">>                    \* a directory; also a namespace name
nm_l      == <<"l">>                    \* the name the symlink has, when there is one
nm_x      == <<"x">>                    \* a file name of fewer than 4 characters
nm_file   == <<"f", "i", "l", "e">>     \* a file name of 4 characters
nm_r      == <<"r">>                    \* the storage root, /r
nm_e      == <<"e">>                    \* a directory outside the root, /e
nm_g      == <<"g">>                    \* a name that does not exist, /g

Root == <<nm_r>>
Namespaces == {nm_a, nm_b}
NormalNames == {nm_a, nm_b, nm_l, nm_x, nm_file}
Components == NormalNames \cup {ParentDir, CurDir}

\* The strings a caller can pass, as the components between their separators;
\* a leading "/" is the only place a RootDir can stand.
LogicalPaths ==
    UNION { [1..n -> Components] : n \in 1..MaxPathLen }
    \cup { <<RootDir>> \o q : q \in UNION { [1..n -> Components] : n \in 1..2 } }

\* The file system the root lives in: real directories and files (absolute,
\* symlink-free paths) and at most one symlink.
FsConfigs == {"plain", "link_out", "link_in", "link_dangling", "ns_link_out"}

RealPaths == { <<>>, <<nm_r>>, <<nm_r, nm_a>>, <<nm_r, nm_a, nm_x>>, <<nm_e>>, <<nm_e, nm_x>> }

IsLink(cfg, q) ==
    \/ cfg \in {"link_out", "link_in", "link_dangling"} /\ q = <<nm_r, nm_l>>
    \/ cfg = "ns_link_out" /\ q = <<nm_r, nm_b>>

LinkTarget(cfg) ==
    CASE cfg = "link_in" -> <<nm_r, nm_a>>
      [] cfg = "link_dangling" -> <<nm_g>>
      [] OTHER -> <<nm_e>>

StartsWith(q, base) == Len(q) >= Len(base) /\ SubSeq(q, 1, Len(base)) = base

PathErr(e) == [kind |-> e, path |-> <<>>]
PathOk(q)  == [kind |-> "Ok", path |-> q]
NoPathResult == [kind |-> "none", path |-> <<>>]

RealFiles == { <<nm_r, nm_a, nm_x>>, <<nm_e, nm_x>> }

\* Path::canonicalize of an absolute path without "." and "..": follow each
\* component, replace a symlink by its target, fail when something is missing
\* (NotFound) or when a file is used as a directory (NotADirectory).
RECURSIVE CanonFrom(_, _, _)
CanonFrom(cfg, cur, rest) ==
    IF rest = <<>> THEN PathOk(cur)
    ELSE IF cur \in RealFiles THEN PathErr("NotADirectory")
    ELSE LET step == Append(cur, Head(rest))
             real == IF IsLink(cfg, step) THEN LinkTarget(cfg) ELSE step
         IN IF real \in RealPaths THEN CanonFrom(cfg, real, Tail(rest))
            ELSE PathErr("NotFound")

canonicalize(cfg, q) == CanonFrom(cfg, <<>>, q)

\* Path::exists follows symlinks: true when the path resolves.
exists(cfg, q) == canonicalize(cfg, q).kind = "Ok"

\* Path::components: a "." is kept only as the first component.
NotCurDir(c) == c # CurDir
components(q) == IF q = <<>> THEN <<>> ELSE <<q[1]>> \o SelectSeq(Tail(q), NotCurDir)

is_absolute(q) == q # <<>> /\ q[1] = RootDir

IsNormal(c) == c \notin {ParentDir, CurDir, RootDir}

\* normalize_relative: collapse "." and ".." lexically; a ".." with nothing
\* left to pop, a root or a prefix is a traversal attempt.
RECURSIVE NormFrom(_, _)
NormFrom(out, rest) ==
    IF rest = <<>> THEN PathOk(out)
    ELSE LET c == Head(rest) IN
         CASE c = CurDir    -> NormFrom(out, Tail(rest))
           [] c = ParentDir -> IF out = <<>> THEN PathErr("PathTraversalAttempt")
                               ELSE NormFrom(SubSeq(out, 1, Len(out) - 1), Tail(rest))
           [] c = RootDir   -> PathErr("PathTraversalAttempt")
           [] OTHER         -> NormFrom(Append(out, c), Tail(rest))

normalize_relative(path) == NormFrom(<<>>, components(path))

\* A canonical form accepted without the containment check.
validate_canonical_unchecked(root, canonical) == PathOk(canonical)

\* validate_canonical: the canonical form must start with the root.
validate_canonical(root, canonical) ==
    IF StartsWith(canonical, root) THEN PathOk(canonical)
    ELSE PathErr("PathTraversalAttempt")

\* validate_path: for a path that does not exist yet, walk up to the first
\* ancestor that exists and check that its canonical form is inside the root.
RECURSIVE ValidateFrom(_, _, _, _)
ValidateFrom(cfg, root, joined, current) ==
    IF current = root THEN PathOk(joined)
    ELSE IF exists(cfg, current)
    THEN IF StartsWith(canonicalize(cfg, current).path, root) THEN PathOk(joined)
         ELSE PathErr("PathTraversalAttempt")
    ELSE IF current = <<>> THEN PathErr("PathTraversalAttempt")
    ELSE ValidateFrom(cfg, root, joined, SubSeq(current, 1, Len(current) - 1))

validate_path(cfg, root, joined) ==
    IF ~StartsWith(joined, root) THEN PathErr("PathTraversalAttempt")
    ELSE ValidateFrom(cfg, root, joined, joined)

\* resolve_path: reject absolute paths, normalize, join to the root, then
\* check the canonical form (existing path) or the nearest existing ancestor.
resolve_path(cfg, root, path) ==
    IF is_absolute(path) THEN PathErr("PathTraversalAttempt")
    ELSE LET safe_rel == normalize_relative(path) IN
         IF safe_rel.kind # "Ok" THEN safe_rel
         ELSE LET joined == root \o safe_rel.path
                  canonical == canonicalize(cfg, joined)
              IN CASE canonical.kind = "Ok" -> validate_canonical(root, canonical.path)
                   [] canonical.kind = "NotFound" -> validate_path(cfg, root, joined)
                   [] OTHER -> PathErr("Io")

\* PathBuf::push: an absolute argument replaces the buffer.
push(buf, q) == IF is_absolute(q) THEN q ELSE buf \o q

\* A layout without shard directories whatever the length of the file name.
resolve_sharding_flat(cfg, root, ns, path) ==
    LET cs == components(path)
        last == IF cs = <<>> THEN CurDir ELSE cs[Len(cs)]
    IN IF ~IsNormal(last) THEN PathErr("FileNotFound")
       ELSE resolve_path(cfg, root,
                         (IF ns # <<>> THEN <<ns>> ELSE <<>>) \o cs)

\* resolve_sharding: [namespace/][parent/][s1/s2/]filename, then resolve_path.
\* ns = <<>> stands for None.
resolve_sharding(cfg, root, ns, path) ==
    LET cs == components(path)
        last == IF cs = <<>> THEN CurDir ELSE cs[Len(cs)]
    IN IF ~IsNormal(last) THEN PathErr("FileNotFound")
       ELSE LET parent == SubSeq(cs, 1, Len(cs) - 1)
                filename == last
                withNs == IF ns # <<>> THEN <<ns>> ELSE <<>>
                withParent == IF parent # <<>> THEN push(withNs, parent) ELSE withNs
                sharded == IF Len(filename) >= 4
                           THEN withParent \o <<SubSeq(filename, 1, 2), SubSeq(filename, 3, 4)>>
                           ELSE withParent
            IN resolve_path(cfg, root, Append(sharded, filename))

\* Storage::resolve and NamespacedStorage::resolve / Storage::resolve_internal
\* applied to the input at hand.
DoResolve ==
    /\ pathOut.kind = "none"
    /\ pathOut' = resolve_path(fsCfg, Root, pathIn)
    /\ UNCHANGED <<fsCfg, pathIn, nsIn, shardOut>>
    /\ PathOnly

DoResolveSharded ==
    /\ shardOut.kind = "none"
    /\ shardOut' = resolve_sharding(fsCfg, Root, nsIn, pathIn)
    /\ UNCHANGED <<fsCfg, pathIn, nsIn, pathOut>>
    /\ PathOnly

PathInitIn(cfgs, paths, nss) ==
    /\ fsCfg \in cfgs
    /\ pathIn \in paths
    /\ nsIn \in nss
    /\ pathOut = NoPathResult
    /\ shardOut = NoPathResult

PathInit == PathInitIn(FsConfigs, LogicalPaths, Namespaces \cup {<<>>})
PathIdle == PathInitIn({"plain"}, {<<nm_x>>}, {<<>>})

PathNext == DoResolve \/ DoResolveSharded

(***************************************************************************)
(*        STORAGE API: write, read, delete, exists, metadata in turn       *)
(***************************************************************************)

\* Calls are made one after the other, each running to its return, on the
\* root handle (ns = <<>>) or on a namespaced view; the file system is the
\* "plain" one of the path sandbox (no symlink).

\* The logical paths the calls are made with.
ApiPaths == { <<nm_x>>, <<nm_file>>, <<nm_a, nm_x>> }
\* Logical paths of which one continues another, for calls on the root handle.
NestedPaths == { <<nm_x>>, <<nm_x, nm_x>>, <<nm_file>> }
AllPaths == ApiPaths \cup NestedPaths
Handles  == { <<>>, nm_a }

\* Storage::resolve_internal, tabulated over the inputs of the calls.
ResolveTable ==
    [h \in Handles, q \in AllPaths |-> resolve_sharding("plain", Root, h, q)]

\* Storage::resolve_internal on the files of the moment: where a component
\* before the last is a file, joined.canonicalize() of resolve_path fails with
\* NotADirectory, which is neither Ok nor NotFound and becomes StorageError::Io.
resolve_internal(ns, path) ==
    LET r == ResolveTable[ns, path] IN
    IF /\ r.kind = "Ok"
       /\ \E n \in 1..(Len(r.path) - 1) :
             \E f \in disk : f.path = SubSeq(r.path, 1, n) /\ f.tmp = 0
    THEN [kind |-> "Io", path |-> <<>>]
    ELSE r

PhysPaths ==
    { ResolveTable[h, q].path : h \in Handles, q \in AllPaths } \ { <<>> }

FileAt(d, q)   == { f \in d : f.path = q /\ f.tmp = 0 }
HasFile(d, q)  == FileAt(d, q) # {}
DataAt(d, q)   == (CHOOSE f \in FileAt(d, q) : TRUE).data
TmpFiles(d)    == { f \in d : f.tmp # 0 }
Prefixes(q)    == { SubSeq(q, 1, n) : n \in 0..Len(q) }
Parent(q)      == SubSeq(q, 1, Len(q) - 1)

NoBuf == <<>>       \* no successful write on record
NoApi == [op |-> "none", ns |-> <<>>, path |-> <<>>, at |-> <<>>, found |-> FALSE,
          res |-> "none", data |-> <<>>, tmp |-> 0, fail |-> "none"]

ApiCall(op, ns, path) ==
    LET r == resolve_internal(ns, path) IN
    [NoApi EXCEPT !.op = op, !.ns = ns, !.path = path, !.at = r.path,
                  !.found = (r.kind = "Ok" /\ HasFile(disk, r.path))]

\* write_internal as one req.  fail names the step the operating system
\* refuses ("none": no step fails).
FWrite(ns, path, b, fail) ==
    LET r    == resolve_internal(ns, path)
        req == [ApiCall("write", ns, path) EXCEPT !.fail = fail]
        tmp  == tmp_counter
        data == fsCompress(fsMode, b)
        rest == { f \in disk : ~(f.path = r.path /\ f.tmp = 0) }
    IN
    /\ tmp_counter <= MaxTmp
    /\ IF r.kind # "Ok"
       THEN /\ apiOut' = [req EXCEPT !.res = r.kind]
            /\ UNCHANGED <<disk, fdirs, lastWrite, tmp_counter>>
       ELSE /\ fdirs' = fdirs \cup Prefixes(Parent(r.path))
            /\ tmp_counter' = tmp_counter + 1
            /\ CASE r.path \in fdirs' ->
                      \* the target is a directory: the temp file is written and
                      \* the rename onto the directory fails
                      /\ disk' = disk \cup {[path |-> r.path, tmp |-> tmp, data |-> data]}
                      /\ apiOut' = [req EXCEPT !.res = "Io", !.tmp = tmp]
                      /\ lastWrite' = lastWrite
                 [] fail = "write_all" ->
                      \* the temp file is created, write_all fails part way
                      /\ disk' = disk \cup {[path |-> r.path, tmp |-> tmp,
                                             data |-> SubSeq(data, 1, Len(data) - 1)]}
                      /\ apiOut' = [req EXCEPT !.res = "Io", !.tmp = tmp]
                      /\ lastWrite' = lastWrite
                 [] fail = "rename" ->
                      \* the rename fails; in the AlreadyExists branch it is the
                      \* second rename, after the target was removed
                      /\ apiOut' = [req EXCEPT !.res = "Io", !.tmp = tmp]
                      /\ IF ~atomicReplace /\ HasFile(disk, r.path)
                         THEN /\ disk' = rest \cup {[path |-> r.path, tmp |-> tmp,
                                                     data |-> data]}
                              /\ lastWrite' = [lastWrite EXCEPT ![r.path] = NoBuf]
                         ELSE /\ disk' = disk \cup {[path |-> r.path, tmp |-> tmp,
                                                     data |-> data]}
                              /\ lastWrite' = lastWrite
                 [] OTHER ->
                      /\ disk' = rest \cup {[path |-> r.path, tmp |-> 0, data |-> data]}
                      /\ apiOut' = [req EXCEPT !.res = "Ok", !.tmp = tmp]
                      /\ lastWrite' = [lastWrite EXCEPT ![r.path] = b]
    /\ FilesOnly

\* read_internal as one req.
FRead(ns, path) ==
    LET r    == resolve_internal(ns, path)
        req == ApiCall("read", ns, path)
    IN
    /\ apiOut' = IF r.kind # "Ok" THEN [req EXCEPT !.res = r.kind]
                 ELSE IF r.path \in fdirs THEN [req EXCEPT !.res = "Io"]
                 ELSE IF ~HasFile(disk, r.path) THEN [req EXCEPT !.res = "FileNotFound"]
                 ELSE LET d == fsDecompress(fsMode, DataAt(disk, r.path)) IN
                      IF d.ok THEN [req EXCEPT !.res = "Ok", !.data = d.data]
                      ELSE [req EXCEPT !.res = "Decompress"]
    /\ UNCHANGED <<disk, fdirs, lastWrite, tmp_counter>>
    /\ FilesOnly

\* delete_internal as one req.
FDelete(ns, path) ==
    LET r    == resolve_internal(ns, path)
        req == ApiCall("delete", ns, path)
    IN
    /\ IF r.kind # "Ok"
       THEN /\ apiOut' = [req EXCEPT !.res = r.kind]
            /\ UNCHANGED <<disk, lastWrite>>
       ELSE IF r.path \in fdirs
       THEN /\ apiOut' = [req EXCEPT !.res = "Io"]
            /\ UNCHANGED <<disk, lastWrite>>
       ELSE IF ~HasFile(disk, r.path)
       THEN /\ apiOut' = [req EXCEPT !.res = "FileNotFound"]
            /\ UNCHANGED <<disk, lastWrite>>
       ELSE /\ disk' = disk \ FileAt(disk, r.path)
            /\ lastWrite' = [lastWrite EXCEPT ![r.path] = NoBuf]
            /\ apiOut' = [req EXCEPT !.res = "Ok"]
    /\ UNCHANGED <<fdirs, tmp_counter>>
    /\ FilesOnly

\* Storage::exists / NamespacedStorage::exists: Path::exists of the resolved path.
FExists(ns, path) ==
    LET r    == resolve_internal(ns, path)
        req == ApiCall("exists", ns, path)
    IN
    /\ apiOut' = IF r.kind # "Ok" THEN [req EXCEPT !.res = r.kind]
                 ELSE IF HasFile(disk, r.path) \/ r.path \in fdirs
                 THEN [req EXCEPT !.res = "true"]
                 ELSE [req EXCEPT !.res = "false"]
    /\ UNCHANGED <<disk, fdirs, lastWrite, tmp_counter>>
    /\ FilesOnly

\* Storage::metadata (root handle): NotFound is mapped to FileNotFound.
\* NamespacedStorage::metadata: every io::Error goes through .context(..),
\* which makes it StorageError::Io.
FMetadata(ns, path) ==
    LET r    == resolve_internal(ns, path)
        req == ApiCall("metadata", ns, path)
    IN
    /\ apiOut' = IF r.kind # "Ok" THEN [req EXCEPT !.res = r.kind]
                 ELSE IF HasFile(disk, r.path) \/ r.path \in fdirs
                 THEN [req EXCEPT !.res = "Ok"]
                 ELSE IF ns = <<>> THEN [req EXCEPT !.res = "FileNotFound"]
                 ELSE [req EXCEPT !.res = "Io"]
    /\ UNCHANGED <<disk, fdirs, lastWrite, tmp_counter>>
    /\ FilesOnly

FilesIdle ==
    /\ disk = { [path |-> q, tmp |-> 0, data |-> OldBuf] : q \in RealFiles }
    /\ fdirs = RealPaths \ RealFiles
    /\ apiOut = NoApi
    /\ lastWrite = [q \in PhysPaths |-> NoBuf]

\* The files that exist before the first req hold data written by an
\* earlier run of the same handle.
FilesInit ==
    /\ disk = { [path |-> q, tmp |-> 0, data |-> fsCompress(fsMode, OldBuf)] :
                  q \in RealFiles }
    /\ fdirs = RealPaths \ RealFiles
    /\ apiOut = NoApi
    /\ lastWrite = [q \in PhysPaths |-> NoBuf]

WriteFailures == {"none", "write_all", "rename"}

FilesNextIn(handles, paths) ==
    \/ \E ns \in handles, q \in paths, b \in Buffers, fail \in WriteFailures :
          FWrite(ns, q, b, fail)
    \/ \E ns \in handles, q \in paths : FRead(ns, q)
    \/ \E ns \in handles, q \in paths : FDelete(ns, q)
    \/ \E ns \in handles, q \in paths : FExists(ns, q)
    \/ \E ns \in handles, q \in paths : FMetadata(ns, q)

FilesNext == FilesNextIn(Handles, ApiPaths)
FilesNestedNext == FilesNextIn({<<>>}, NestedPaths)

(***************************************************************************)
(*                                 VAULT                                   *)
(***************************************************************************)

\* ---- bounds of the vault model ----
MaxPlainLen == 2     \* bytes of plaintext
MaxAadLen   == 1     \* bytes of associated data

\* ---- program constants ----
PAYLOAD_VERSION_V1 == 1
HEADER_LEN         == 2
NONCE_LEN          == 12
TAG_LEN            == 16
FLAG_COMPRESSED    == 1

Domains    == {"Local", "Fleet"}
PlainBytes == {0, 65}
Plaintexts == UNION { [1..n -> PlainBytes] : n \in 0..MaxPlainLen }
AadBytes   == {99, 120}
Aads       == UNION { [1..n -> AadBytes] : n \in 0..MaxAadLen }
Nonces     == { [i \in 1..NONCE_LEN |-> x] : x \in {3, 200} }

\* Both domains served by the local cipher.
select_cipher_shared(dom) == 1

\* PayloadKind::select_cipher: Local -> local_cipher, Fleet -> fleet_cipher.
\* The two ciphers hold the two keys derived_keys expands with different
\* info strings; 1 and 2 name those keys.
select_cipher(dom) == IF dom = "Local" THEN 1 ELSE 2

\* The AEAD primitive behind VaultCipher (AES-256-GCM / ChaCha20-Poly1305):
\* a stream cipher keyed by (key, nonce), and a 16-byte tag that is a
\* collision-free function of (key, nonce, aad, ciphertext).
Keystream(key, nonce, i) == (85 * key + nonce[1] + 17 * i) % 256

Pad(q, n) == [i \in 1..n |-> IF i <= Len(q) THEN q[i] ELSE 0]

Tag(key, nonce, aad, ct) ==
    <<key, nonce[1], Len(aad)>> \o Pad(aad, MaxAadLen) \o <<Len(ct)>>
        \o Pad(ct, TAG_LEN - 4 - MaxAadLen)

encrypt_inout_detached(key, nonce, aad, pt) ==
    LET ct == [i \in 1..Len(pt) |-> (pt[i] + Keystream(key, nonce, i)) % 256]
    IN [ct |-> ct, tag |-> Tag(key, nonce, aad, ct)]

decrypt_inout_detached(key, nonce, aad, ct, tag) ==
    IF tag = Tag(key, nonce, aad, ct)
    THEN [ok |-> TRUE,
          pt |-> [i \in 1..Len(ct) |-> (ct[i] + 256 - Keystream(key, nonce, i)) % 256]]
    ELSE [ok |-> FALSE, pt |-> <<>>]

VaultOk(d)  == [kind |-> "Ok", data |-> d]
VaultErr(e) == [kind |-> e, data |-> <<>>]
NoVaultResult == [kind |-> "none", data |-> <<>>]

\* A seal that compresses but leaves the compressed flag clear.
encrypt_internal_unflagged(cipher, data, aad, compress, nonce) ==
    LET body == IF compress THEN compress_prepend_size(data) ELSE data
        enc  == encrypt_inout_detached(cipher, nonce, aad, body)
    IN <<PAYLOAD_VERSION_V1, 0>> \o nonce \o enc.ct \o enc.tag

\* Vault::encrypt_internal: [version | flags | nonce | ciphertext | tag]
encrypt_internal(cipher, data, aad, compress, nonce) ==
    LET body  == IF compress THEN compress_prepend_size(data) ELSE data
        flags == IF compress THEN FLAG_COMPRESSED ELSE 0
        enc   == encrypt_inout_detached(cipher, nonce, aad, body)
    IN <<PAYLOAD_VERSION_V1, flags>> \o nonce \o enc.ct \o enc.tag

\* Vault::decrypt_internal
decrypt_internal(cipher, blob, aad) ==
    IF Len(blob) < HEADER_LEN + NONCE_LEN + TAG_LEN THEN VaultErr("InvalidPayload")
    ELSE LET version == blob[1]
             flags   == blob[2]
             nonce   == SubSeq(blob, HEADER_LEN + 1, HEADER_LEN + NONCE_LEN)
             ct      == SubSeq(blob, HEADER_LEN + NONCE_LEN + 1, Len(blob) - TAG_LEN)
             tag     == SubSeq(blob, Len(blob) - TAG_LEN + 1, Len(blob))
         IN IF version # PAYLOAD_VERSION_V1 THEN VaultErr("InvalidPayload")
            ELSE LET dec == decrypt_inout_detached(cipher, nonce, aad, ct, tag) IN
                 IF ~dec.ok THEN VaultErr("Decryption")
                 ELSE IF flags % 2 = FLAG_COMPRESSED
                 THEN LET un == decompress_size_prepended(dec.pt) IN
                      IF un.ok THEN VaultOk(un.data) ELSE VaultErr("Decompression")
                 ELSE VaultOk(dec.pt)

\* ProtectedPayload::is_compressed
is_compressed(blob) == Len(blob) >= 2 /\ blob[2] % 2 = FLAG_COMPRESSED

NoSeal   == [data |-> <<>>, dom |-> "none", aad |-> <<>>]
NoUnseal == [dom |-> "none", aad |-> <<>>]
NoTamper == [kind |-> "none", pos |-> 0, val |-> 0]

\* byte with bit b (0 = least significant) inverted
FlipBitOf(byte, b) ==
    IF (byte \div (2 ^ b)) % 2 = 1 THEN byte - 2 ^ b ELSE byte + 2 ^ b

\* Values an attacker or a newer writer could put in the version and flag bytes.
VersionVals == {0, 2, 255}
FlagVals    == {2, 3, 128, 254, 255}

\* Vault::seal_bytes: select the cipher of the domain, draw a nonce,
\* encrypt_internal with the vault's compression default.
Seal(data, dom, aad, nonce) ==
    /\ sealIn = NoSeal
    /\ sealIn' = [data |-> data, dom |-> dom, aad |-> aad]
    /\ payload' = encrypt_internal(select_cipher(dom), data, aad, compression, nonce)
    /\ UNCHANGED <<compression, tamper, unsealIn, unsealOut>>
    /\ VaultOnly

\* The stored payload is altered before it is unsealed: one bit inverted.
FlipBit(pos, b) ==
    /\ sealIn # NoSeal /\ tamper.kind = "none" /\ unsealOut.kind = "none"
    /\ pos \in 1..Len(payload)
    /\ payload' = [payload EXCEPT ![pos] = FlipBitOf(@, b)]
    /\ tamper' = [kind |-> "flip", pos |-> pos, val |-> b]
    /\ UNCHANGED <<compression, sealIn, unsealIn, unsealOut>>
    /\ VaultOnly

\* ... cut short to n bytes
Truncate(n) ==
    /\ sealIn # NoSeal /\ tamper.kind = "none" /\ unsealOut.kind = "none"
    /\ n < Len(payload)
    /\ payload' = SubSeq(payload, 1, n)
    /\ tamper' = [kind |-> "truncate", pos |-> n, val |-> 0]
    /\ UNCHANGED <<compression, sealIn, unsealIn, unsealOut>>
    /\ VaultOnly

\* ... or given another version byte or flag byte
SetHeader(pos, v) ==
    /\ sealIn # NoSeal /\ tamper.kind = "none" /\ unsealOut.kind = "none"
    /\ payload' = [payload EXCEPT ![pos] = v]
    /\ tamper' = [kind |-> "header", pos |-> pos, val |-> v]
    /\ UNCHANGED <<compression, sealIn, unsealIn, unsealOut>>
    /\ VaultOnly

\* Vault::unseal_bytes: select the cipher of the domain, decrypt_internal.
Unseal(dom, aad) ==
    /\ sealIn # NoSeal /\ unsealOut.kind = "none"
    /\ unsealIn' = [dom |-> dom, aad |-> aad]
    /\ unsealOut' = decrypt_internal(select_cipher(dom), payload, aad)
    /\ UNCHANGED <<compression, sealIn, payload, tamper>>
    /\ VaultOnly

VaultInitIn(modes) ==
    /\ compression \in modes
    /\ sealIn = NoSeal
    /\ payload = <<>>
    /\ tamper = NoTamper
    /\ unsealIn = NoUnseal
    /\ unsealOut = NoVaultResult

VaultInit == VaultInitIn(BOOLEAN)
VaultIdle == VaultInitIn({FALSE})

VaultNext ==
    \/ \E data \in Plaintexts, dom \in Domains, aad \in Aads, nonce \in Nonces :
          Seal(data, dom, aad, nonce)
    \/ \E pos \in 1..(HEADER_LEN + NONCE_LEN + TAG_LEN + MaxPlainLen + 5), b \in 0..7 :
          FlipBit(pos, b)
    \/ \E n \in 0..(HEADER_LEN + NONCE_LEN + TAG_LEN + MaxPlainLen + 5) : Truncate(n)
    \/ \E v \in VersionVals : SetHeader(1, v)
    \/ \E v \in FlagVals : SetHeader(2, v)
    \/ \E dom \in Domains, aad \in Aads : Unseal(dom, aad)

(***************************************************************************)
(*                               LICENSING                                 *)
(***************************************************************************)

\* ---- bounds of the licensing model ----
MaxIds        == 2     \* allowed compound ids in a Threshold constraint
MaxMinMatches == 3     \* largest min_matches issued

\* ---- constants of constraints.rs ----
SEP    == <<"|">>
PREFIX == <<"v", "1", ":">>

\* Strings are sequences of characters.  Component fingerprints:
fp_a == <<"a">>
fp_b == <<"b">>
fp_c == <<"c">>
fp_d == <<"d">>

\* generate_machine_id_compound: "v1:<cpuid>|<mac>|<system_id>"
generate_machine_id_compound(m) == PREFIX \o m[1] \o SEP \o m[2] \o SEP \o m[3]

LicErr(e) == [kind |-> e, parts |-> <<>>]

\* str::split(SEP): the pieces between the separators, at least one piece.
RECURSIVE SplitFrom(_, _, _)
SplitFrom(s, cur, acc) ==
    IF s = <<>> THEN Append(acc, cur)
    ELSE IF <<Head(s)>> = SEP THEN SplitFrom(Tail(s), <<>>, Append(acc, cur))
    ELSE SplitFrom(Tail(s), Append(cur, Head(s)), acc)

split(s) == SplitFrom(s, <<>>, <<>>)

\* parse_machine_id_compound: strict on the prefix, on the number of parts and
\* on empty parts.
parse_machine_id_compound(s) ==
    IF Len(s) < Len(PREFIX) \/ SubSeq(s, 1, Len(PREFIX)) # PREFIX
    THEN LicErr("MachineIDGeneration")
    ELSE LET parts == split(SubSeq(s, Len(PREFIX) + 1, Len(s))) IN
         IF Len(parts) # 3 \/ \E i \in 1..Len(parts) : parts[i] = <<>>
         THEN LicErr("MachineIDGeneration")
         ELSE [kind |-> "Ok", parts |-> parts]

Range(q) == {q[i] : i \in 1..Len(q)}

\* validate_hardware, the loop over ids from position i on with the best
\* match count so far; returns the error kind or "Ok".
RECURSIVE HardwareLoop(_, _, _, _, _)
HardwareLoop(ids, i, best, min_matches, current_set) ==
    IF i > Len(ids) THEN "HardwareMismatch"
    ELSE LET allowed == parse_machine_id_compound(ids[i]) IN
         IF allowed.kind # "Ok" THEN allowed.kind
         ELSE LET matches == Cardinality(Range(allowed.parts) \cap current_set)
                  best2   == IF matches > best THEN matches ELSE best
              IN IF best2 >= min_matches THEN "Ok"
                 ELSE HardwareLoop(ids, i + 1, best2, min_matches, current_set)

validate_hardware(constraint, m) ==
    IF constraint.kind = "Any" THEN "Ok"
    ELSE LET current == parse_machine_id_compound(generate_machine_id_compound(m)) IN
         IF current.kind # "Ok" THEN current.kind
         ELSE HardwareLoop(constraint.ids, 1, 0, constraint.min_matches,
                           Range(current.parts))

\* ---- postcard encoding of LicenseData (the signed bytes) ----
Code(c) ==
    CASE c = "v" -> 118 [] c = "1" -> 49 [] c = "2" -> 50 [] c = ":" -> 58
      [] c = "|" -> 124 [] c = "a" -> 97 [] c = "b" -> 98 [] c = "c" -> 99
      [] c = "d" -> 100 [] c = "t" -> 116 [] c = "u" -> 117

RECURSIVE Varint(_)
Varint(n) == IF n < 128 THEN <<n>> ELSE <<128 + (n % 128)>> \o Varint(n \div 128)

ZigZag(i) == IF i >= 0 THEN 2 * i ELSE -2 * i - 1

EncStr(str) == Varint(Len(str)) \o [i \in 1..Len(str) |-> Code(str[i])]

RECURSIVE EncStrs(_)
EncStrs(q) == IF q = <<>> THEN <<>> ELSE EncStr(Head(q)) \o EncStrs(Tail(q))

EncConstraint(c) ==
    IF c.kind = "Any" THEN Varint(0)
    ELSE Varint(1) \o Varint(Len(c.ids)) \o EncStrs(c.ids) \o Varint(c.min_matches)

to_stdvec(data) ==
    EncStr(data.customer) \o EncStr(data.alias) \o EncConstraint(data.constraint)
        \o Varint(data.features) \o Varint(Len(data.salt)) \o data.salt
        \o Varint(ZigZag(data.issued)) \o Varint(ZigZag(data.expires))

\* ---- Ed25519 as an unforgeable deterministic scheme ----
SigningKeys == {"sk1", "sk2"}
verifying_key(sk) == <<"pk", sk>>
BadKeyBytes  == <<"pk">>           \* 32 bytes that are no curve point
ShortSig     == [signer |-> "none", msg |-> <<>>]   \* not 64 bytes long
sign(sk, msg) == [signer |-> sk, msg |-> msg]
verify(pk, msg, sig) == pk = verifying_key(sig.signer) /\ sig.msg = msg

\* verify_signature: key decoding, signature decoding, encoding, verification.
verify_signature(lic, public_key) ==
    IF public_key = BadKeyBytes THEN "InvalidSignature"
    ELSE IF lic.signature = ShortSig THEN "InvalidSignature"
    ELSE IF verify(public_key, to_stdvec(lic.data), lic.signature) THEN "Ok"
    ELSE "InvalidSignature"

\* check_expiry: clock against the issue date, the expiry date, then hardware.
check_expiry(lic, now, m) ==
    IF now < lic.data.issued THEN "Internal"
    ELSE IF now > lic.data.expires THEN "Expired"
    ELSE validate_hardware(lic.data.constraint, m)

validate_license(lic, public_key, now, m) ==
    LET e == check_expiry(lic, now, m) IN
    IF e # "Ok" THEN e ELSE verify_signature(lic, public_key)

\* ---- inputs ----
CompoundIds ==
    { generate_machine_id_compound(<<fp_a, fp_b, fp_c>>),
      generate_machine_id_compound(<<fp_c, fp_a, fp_d>>),
      generate_machine_id_compound(<<fp_d, fp_d, fp_a>>),
      generate_machine_id_compound(<<fp_d, fp_d, fp_d>>),
      <<"v", "2", ":">> \o fp_a \o SEP \o fp_b \o SEP \o fp_c,
      PREFIX \o fp_a \o SEP \o SEP \o fp_c,
      PREFIX \o fp_a \o SEP \o fp_b }

AnyMachine == [kind |-> "Any", ids |-> <<>>, min_matches |-> 0]

IdLists == UNION { [1..n -> CompoundIds] : n \in 0..MaxIds }

Constraints ==
    { AnyMachine }
    \cup { [kind |-> "Threshold", ids |-> ids, min_matches |-> k] :
             ids \in IdLists, k \in 0..MaxMinMatches }

IssueDate   == 5
ExpiryDates == {IssueDate, IssueDate + 4}
Clocks      == {IssueDate - 1, IssueDate, IssueDate + 4, IssueDate + 5}
Machines    == { <<fp_a, fp_b, fp_c>>, <<fp_a, fp_a, fp_b>> }

LicenseDatas ==
    { [customer |-> <<"t">>, alias |-> <<>>, constraint |-> c, features |-> 0,
       salt |-> <<>>, issued |-> IssueDate, expires |-> e] :
          c \in Constraints, e \in ExpiryDates }

NoData    == [customer |-> <<>>, alias |-> <<>>, constraint |-> AnyMachine,
              features |-> 0, salt |-> <<>>, issued |-> 0, expires |-> 0]
NoLicense == [data |-> NoData, signature |-> ShortSig]
NoIssue   == [key |-> "none", data |-> NoData]
NoLicIn   == [now |-> 0, key |-> <<>>]

\* ---- actions ----
\* generate_universal_license: encode the data and sign it with the private key.
Issue(sk, data) ==
    /\ license = NoLicense
    /\ license'  = [data |-> data, signature |-> sign(sk, to_stdvec(data))]
    /\ issuedBy' = [key |-> sk, data |-> data]
    /\ UNCHANGED <<machine, licIn, licOut>>
    /\ LicenseOnly

\* The holder edits the data of a signed license and keeps the signature; the
\* edited license has not been validated yet.
AlterData ==
    /\ license # NoLicense
    /\ license.data = issuedBy.data
    /\ \E d \in { [license.data EXCEPT !.expires = IssueDate + 5],
                  [license.data EXCEPT !.customer = <<"u">>],
                  [license.data EXCEPT !.constraint = AnyMachine] } :
          /\ d # license.data
          /\ license' = [license EXCEPT !.data = d]
    /\ licIn'  = NoLicIn
    /\ licOut' = "none"
    /\ UNCHANGED <<issuedBy, machine>>
    /\ LicenseOnly

\* The signature bytes are cut short.
CutSignature ==
    /\ license # NoLicense
    /\ license.signature # ShortSig
    /\ license' = [license EXCEPT !.signature = ShortSig]
    /\ licIn'  = NoLicIn
    /\ licOut' = "none"
    /\ UNCHANGED <<issuedBy, machine>>
    /\ LicenseOnly

\* SignedLicense::validate(public_key) at wall-clock time now.
Validate(now, public_key) ==
    /\ license # NoLicense
    /\ licIn'  = [now |-> now, key |-> public_key]
    /\ licOut' = validate_license(license, public_key, now, machine)
    /\ UNCHANGED <<license, issuedBy, machine>>
    /\ LicenseOnly

LicenseInitIn(machines) ==
    /\ license  = NoLicense
    /\ issuedBy = NoIssue
    /\ machine \in machines
    /\ licIn    = NoLicIn
    /\ licOut   = "none"

LicenseInit == LicenseInitIn(Machines)
LicenseIdle == LicenseInitIn({<<fp_a, fp_b, fp_c>>})

LicenseNext ==
    \/ \E sk \in SigningKeys, data \in LicenseDatas : Issue(sk, data)
    \/ AlterData
    \/ CutSignature
    \/ \E now \in Clocks,
          pk \in {verifying_key(sk) : sk \in SigningKeys} \cup {BadKeyBytes} :
          Validate(now, pk)

(***************************************************************************)
(*                  STORAGE MAINTENANCE: THE TEMP-FILE PURGE               *)
(***************************************************************************)

\* One target file in one shard directory under the root; a handle that
\* writes it step by step, a purge that walks the tree, a clock, and a
\* process that can die and connect again.

\* ---- bounds of the maintenance model ----
MaxMtTmp    == 3     \* tmp_counter values a handle uses
MaxCrashes  == 1     \* process crashes in a run

\* maintenance.rs: let threshold = Duration::from_secs(300)
threshold   == 300

\* The instants the clock takes: around zero and around the threshold.
TimePoints  == { 0, 1, threshold, threshold + 1, threshold + 2 }

\* The marker of a temp file name, and the file name of the target.
Marker      == ".mhubtmp."
MtTarget    == << "x" >>

\* unique_tmp_path's name: format!("{file_name}.mhubtmp.{counter}").
tmp_file_name(file_name, counter) == file_name \o << Marker, ToString(counter) >>

\* is_tmp: the file name contains ".mhubtmp.".
is_tmp(name) == \E i \in 1..Len(name) : name[i] = Marker

MtHas(files, name) == \E f \in files : f.name = name
MtFile(files, name) == CHOOSE f \in files : f.name = name
MtWithout(files, name) == { f \in files : f.name # name }

\* is_stale: metadata, modified and duration_since each may fail, and
\* map_or(true, ..) makes every failure stale; otherwise age > threshold.
is_stale(files, name, now) ==
    IF ~MtHas(files, name) THEN TRUE
    ELSE LET modified == MtFile(files, name).mtime IN
         IF modified > now THEN TRUE
         ELSE now - modified > threshold

MwIdle == [pc |-> "idle", temp |-> << >>, res |-> "none", cause |-> "none"]
MpIdle == [pc |-> "idle", now |-> 0, todo |-> {}, removed |-> 0, failed |-> 0]

\* A connected handle on an empty root.
MaintInit ==
    /\ mclock = 0
    /\ mdir = FALSE
    /\ mfiles = {}
    /\ mcounter = 1
    /\ mhandle = "up"
    /\ mcrashes = 0
    /\ mw = MwIdle
    /\ mp = MpIdle

MaintIdle == MaintInit

\* Time passes.
MTick ==
    /\ \E t \in TimePoints : t > mclock /\ mclock' = t
    /\ UNCHANGED <<mdir, mfiles, mcounter, mhandle, mcrashes, mw, mp>>
    /\ MaintOnly

\* write_internal is called: the path resolves.
MWBegin ==
    /\ mhandle = "up"
    /\ mw.pc = "idle"
    /\ mcounter <= MaxMtTmp
    /\ mw' = [MwIdle EXCEPT !.pc = "mkdir"]
    /\ UNCHANGED <<mclock, mdir, mfiles, mcounter, mhandle, mcrashes, mp>>
    /\ MaintOnly

\* create_dir_all(parent) returns, and unique_tmp_path takes the next counter.
MWMkdir ==
    /\ mw.pc = "mkdir"
    /\ mdir' = TRUE
    /\ mcounter' = mcounter + 1
    /\ mw' = [mw EXCEPT !.pc = "create", !.temp = tmp_file_name(MtTarget, mcounter)]
    /\ UNCHANGED <<mclock, mfiles, mhandle, mcrashes, mp>>
    /\ MaintOnly

\* OpenOptions::new().create_new(true).write(true).open(&temp).
MWCreate ==
    /\ mw.pc = "create"
    /\ IF ~mdir
       THEN /\ mw' = [mw EXCEPT !.pc = "idle", !.res = "Io", !.cause = "NotFound"]
            /\ UNCHANGED mfiles
       ELSE IF MtHas(mfiles, mw.temp)
       THEN /\ mw' = [mw EXCEPT !.pc = "idle", !.res = "Io", !.cause = "AlreadyExists"]
            /\ UNCHANGED mfiles
       ELSE /\ mfiles' = mfiles \cup { [name |-> mw.temp, mtime |-> mclock] }
            /\ mw' = [mw EXCEPT !.pc = "write"]
    /\ UNCHANGED <<mclock, mdir, mcounter, mhandle, mcrashes, mp>>
    /\ MaintOnly

\* write_all and sync_all on the open temp file (they succeed on an unlinked
\* file too).
MWWrite ==
    /\ mw.pc = "write"
    /\ mfiles' = { IF f.name = mw.temp THEN [f EXCEPT !.mtime = mclock] ELSE f : f \in mfiles }
    /\ mw' = [mw EXCEPT !.pc = "rename"]
    /\ UNCHANGED <<mclock, mdir, mcounter, mhandle, mcrashes, mp>>
    /\ MaintOnly

\* fs::rename(&temp, &resolved), then sync_dir and Ok(()).
MWRename ==
    /\ mw.pc = "rename"
    /\ IF ~MtHas(mfiles, mw.temp)
       THEN /\ mw' = [mw EXCEPT !.pc = "idle", !.res = "Io", !.cause = "NotFound"]
            /\ UNCHANGED mfiles
       ELSE /\ mfiles' = MtWithout(MtWithout(mfiles, MtTarget), mw.temp)
                            \cup { [name |-> MtTarget, mtime |-> MtFile(mfiles, mw.temp).mtime] }
            /\ mw' = [mw EXCEPT !.pc = "idle", !.res = "Ok"]
    /\ UNCHANGED <<mclock, mdir, mcounter, mhandle, mcrashes, mp>>
    /\ MaintOnly

\* The process dies: the write and the purge in progress go with it, the
\* files stay.
MCrash ==
    /\ mhandle # "down"
    /\ mcrashes < MaxCrashes
    /\ mcrashes' = mcrashes + 1
    /\ mhandle' = "down"
    /\ mw' = MwIdle
    /\ mp' = MpIdle
    /\ UNCHANGED <<mclock, mdir, mfiles, mcounter>>
    /\ MaintOnly

\* remove_stale's start, from purge_tmp: now is taken before the walk.
PurgeStart == [MpIdle EXCEPT !.pc = "scan", !.now = mclock]

\* StorageBuilder::connect: tmp_counter: AtomicU64::new(1), then
\* storage.purge_tmp().await before the handle is returned.
MConnect ==
    /\ mhandle = "down"
    /\ mhandle' = "connecting"
    /\ mcounter' = 1
    /\ mp' = PurgeStart
    /\ UNCHANGED <<mclock, mdir, mfiles, mcrashes, mw>>
    /\ MaintOnly

\* Storage::purge_tmp on a connected handle.
MPurgeCall ==
    /\ mhandle = "up"
    /\ mp.pc = "idle"
    /\ mp' = PurgeStart
    /\ UNCHANGED <<mclock, mdir, mfiles, mcounter, mhandle, mcrashes, mw>>
    /\ MaintOnly

\* WalkDir reads the shard directory (contents first: its entries come
\* before the directory itself).
MPurgeOpen ==
    /\ mp.pc = "scan"
    /\ mp' = [mp EXCEPT !.pc = "walk", !.todo = IF mdir THEN { f.name : f \in mfiles } ELSE {}]
    /\ UNCHANGED <<mclock, mdir, mfiles, mcounter, mhandle, mcrashes, mw>>
    /\ MaintOnly

\* for_each on a file entry: remove_file when is_tmp && is_stale.
MPurgeVisit ==
    /\ mp.pc = "walk"
    /\ \E name \in mp.todo :
          IF is_tmp(name) /\ is_stale(mfiles, name, mp.now)
          THEN IF MtHas(mfiles, name)
               THEN /\ mfiles' = MtWithout(mfiles, name)
                    /\ mp' = [mp EXCEPT !.todo = @ \ {name}, !.removed = @ + 1]
               ELSE /\ UNCHANGED mfiles
                    /\ mp' = [mp EXCEPT !.todo = @ \ {name}, !.failed = @ + 1]
          ELSE /\ UNCHANGED mfiles
               /\ mp' = [mp EXCEPT !.todo = @ \ {name}]
    /\ UNCHANGED <<mclock, mdir, mcounter, mhandle, mcrashes, mw>>
    /\ MaintOnly

\* for_each on the directory entry: remove_dir, which removes an empty
\* directory only; the root is filtered out. The walk ends and purge_tmp
\* returns.
MPurgeRmdir ==
    /\ mp.pc = "walk"
    /\ mp.todo = {}
    /\ mdir' = (mdir /\ mfiles # {})
    /\ mp' = [mp EXCEPT !.pc = "idle"]
    /\ mhandle' = IF mhandle = "connecting" THEN "up" ELSE mhandle
    /\ UNCHANGED <<mclock, mfiles, mcounter, mcrashes, mw>>
    /\ MaintOnly

MaintNext ==
    \/ MTick
    \/ MWBegin
    \/ MWMkdir
    \/ MWCreate
    \/ MWWrite
    \/ MWRename
    \/ MCrash
    \/ MConnect
    \/ MPurgeCall
    \/ MPurgeOpen
    \/ MPurgeVisit
    \/ MPurgeRmdir

(***************************************************************************)
(*                           SPECIFICATIONS                                *)
(***************************************************************************)

\* Each specification starts its own subsystem and leaves the others idle.
InitBus     == BusInit /\ StorageIdle /\ PathIdle /\ VaultIdle /\ LicenseIdle /\ FilesIdle /\ DeliveryIdle
               /\ MaintIdle
InitStorage == BusInit /\ StorageInit /\ PathIdle /\ VaultIdle /\ LicenseIdle /\ FilesIdle /\ DeliveryIdle
               /\ MaintIdle
InitPath    == BusInit /\ StorageIdle /\ PathInit /\ VaultIdle /\ LicenseIdle /\ FilesIdle /\ DeliveryIdle
               /\ MaintIdle
InitVault   == BusInit /\ StorageIdle /\ PathIdle /\ VaultInit /\ LicenseIdle /\ FilesIdle /\ DeliveryIdle
               /\ MaintIdle
InitFiles   == /\ BusInit /\ PathIdle /\ VaultIdle /\ LicenseIdle /\ DeliveryIdle /\ MaintIdle
               /\ StorageInitIn(StorageModes, BOOLEAN, {FALSE}) /\ FilesInit
InitDelivery == /\ BusInit /\ StorageIdle /\ PathIdle /\ VaultIdle /\ LicenseIdle
                /\ FilesIdle /\ DeliveryInit /\ MaintIdle
InitDeliveryLive == /\ BusInit /\ StorageIdle /\ PathIdle /\ VaultIdle /\ LicenseIdle
                    /\ FilesIdle /\ DeliveryInitLive /\ MaintIdle
InitLicense == BusInit /\ StorageIdle /\ PathIdle /\ VaultIdle /\ LicenseInit /\ FilesIdle /\ DeliveryIdle
               /\ MaintIdle
InitMaint   == /\ BusInit /\ StorageIdle /\ PathIdle /\ VaultIdle /\ LicenseIdle
               /\ FilesIdle /\ DeliveryIdle /\ MaintInit

SpecBus     == InitBus /\ [][BusNext]_vars
SpecStorage == InitStorage /\ [][StorageNext]_vars
SpecPath    == InitPath /\ [][PathNext]_vars
SpecVault   == InitVault /\ [][VaultNext]_vars
SpecLicense == InitLicense /\ [][LicenseNext]_vars
SpecFiles   == InitFiles /\ [][FilesNext]_vars
SpecFilesNested == InitFiles /\ [][FilesNestedNext]_vars
SpecDelivery == InitDelivery /\ [][DeliveryNext]_vars
SpecMaint   == InitMaint /\ [][MaintNext]_vars

\* A step of a call that has started, or of a receiver that is receiving.
DeliveryProgress ==
    \/ \E t \in Threads : DEnsureWrite(t) \/ DUse(t) \/ DMpscPubInsert(t) \/ DTrySend(t)
                              \/ DMpscSubInsert(t)
    \/ \E r \in RxIds : DRecv(r)

\* Calls that have started and receives that can complete are not all held
\* back for ever (the runtime keeps scheduling runnable tasks).
DeliveryFair == WF_vars(DeliveryProgress)

SpecDeliveryLive == InitDeliveryLive /\ [][DeliveryNext]_vars /\ DeliveryFair

(***************************************************************************)
(*                          EVENT BUS PROPERTIES                           *)
(***************************************************************************)

\* C1: for every event type, once a channel of one kind has been registered,
\* the kind registered for that type never changes under any interleaving of
\* subscribe, publish and shutdown calls: whatever channel the registry holds
\* for the type has the kind that was registered first.
C1_KindNeverChanges ==
    \A ty \in Types :
        channels[ty].kind # "None" => channels[ty].kind = firstKind[ty]

\* C2: for every event type, subscribe_mpsc hands out a queue receiver at
\* most once over any interleaving of bus operations.
C2_ReceiverAtMostOnce ==
    \A ty \in Types : rxHanded[ty] <= 1

(***************************************************************************)
(*                           STORAGE PROPERTIES                            *)
(***************************************************************************)

\* What the file had before the writes, and what the writers were given.
WrittenBuffers == started \cup (IF hadTarget THEN {OldBuf} ELSE {})

\* C3: while writers concurrently write complete buffers to one path, every
\* read of the path that returns gives either one of the written buffers in
\* full or FileNotFound, never a partial or mixed buffer.
C3_ReadFullOrNotFound ==
    \A r \in Readers :
        rst[r].res # "none" =>
            \/ rst[r].res = "FileNotFound"
            \/ rst[r].res = "Ok" /\ rst[r].out \in WrittenBuffers

\* A read returned the buffer of one writer in full while the other writer,
\* given a different buffer, was in the middle of writing its temp file.
C3_Witness ==
    \E r \in Readers, w \in Writers :
        /\ rst[r].res = "Ok" /\ rst[r].out \in Buffers
        /\ wpc[w] = "write" /\ wst[w].off = 1
        /\ wst[w].buf # fsCompress(fsMode, rst[r].out)

\* C4: after a crash at any step of a write that overwrites an existing file,
\* the target holds the complete old content or the complete content of a
\* write; it is never missing, truncated or mixed.
C4_CrashKeepsOldOrNew ==
    (crashed /\ hadTarget) =>
        /\ dir[TargetName] # 0
        /\ inode[dir[TargetName]].data \in {fsCompress(fsMode, b) : b \in WrittenBuffers}

(***************************************************************************)
(*                         PATH SANDBOX PROPERTIES                         *)
(***************************************************************************)

\* A ".." of the path has no directory before it left to cancel: some prefix
\* of the path holds more ".." than names.
ClimbsAboveRoot(q) ==
    \E k \in 1..Len(q) :
        Cardinality({i \in 1..k : q[i] = ParentDir}) >
            Cardinality({i \in 1..k : IsNormal(q[i])})

\* The path is inside the root, and so is the real location of every prefix
\* of it that exists (a symlink on the way is followed).
UnderRoot(cfg, q) ==
    /\ StartsWith(q, Root)
    /\ \A k \in Len(Root)..Len(q) :
          exists(cfg, SubSeq(q, 1, k)) =>
              StartsWith(canonicalize(cfg, SubSeq(q, 1, k)).path, Root)

\* C5: path resolution fails or returns a path under the canonical root, also
\* when a component on the way is a symlink; absolute paths and paths whose
\* ".." components climb above the root are rejected with
\* PathTraversalAttempt.
C5_ResolvedUnderRoot ==
    /\ pathOut.kind = "Ok" => UnderRoot(fsCfg, pathOut.path)
    /\ shardOut.kind = "Ok" => UnderRoot(fsCfg, shardOut.path)
    /\ (pathOut.kind # "none" /\ (is_absolute(pathIn) \/ ClimbsAboveRoot(pathIn)))
          => pathOut.kind = "PathTraversalAttempt"

\* A path through a symlink that stays inside the root resolved to its
\* canonical place, with a ".." on the way that did not climb above the root.
C5_Witness ==
    /\ fsCfg = "link_in"
    /\ pathIn = <<nm_b, ParentDir, nm_l, nm_x>>
    /\ pathOut = PathOk(<<nm_r, nm_a, nm_x>>)

\* C6: every path a namespaced view resolves lies under <root>/<namespace>/,
\* so that the views of two namespaces never name the same physical path.
C6_ViewUnderNamespace ==
    (nsIn # <<>> /\ shardOut.kind = "Ok") =>
        StartsWith(shardOut.path, Append(Root, nsIn))

(***************************************************************************)
(*                            VAULT PROPERTIES                             *)
(***************************************************************************)

\* unseal_bytes returned, for the payload as sealed / with the arguments of the seal
Unsealed   == unsealOut.kind # "none"
Untampered == tamper.kind = "none"
SameContext == unsealIn.dom = sealIn.dom /\ unsealIn.aad = sealIn.aad

\* C7: unseal_bytes(seal_bytes(P, D, A), D, A) returns exactly P for every
\* plaintext, associated data, domain and compression setting, and the sealed
\* payload has its compressed flag set exactly when compression is the
\* vault's default.
C7_RoundTrip ==
    /\ (Unsealed /\ Untampered /\ SameContext) => unsealOut = VaultOk(sealIn.data)
    /\ (sealIn # NoSeal /\ Untampered) => (is_compressed(payload) <=> compression)

\* A compressed, non-empty Fleet payload sealed with associated data came
\* back as the plaintext it was sealed from.
C7_Witness ==
    /\ Unsealed /\ Untampered /\ SameContext
    /\ compression /\ is_compressed(payload)
    /\ sealIn.dom = "Fleet" /\ Len(sealIn.data) = MaxPlainLen /\ sealIn.aad # <<>>
    /\ unsealOut = VaultOk(sealIn.data)

\* C8: a payload sealed under domain D with associated data A, unsealed with
\* the other domain or with different associated data, fails with Decryption
\* and yields no plaintext.
C8_ContextBinding ==
    (Unsealed /\ Untampered /\ ~SameContext) => unsealOut = VaultErr("Decryption")

\* A Local payload, untouched, was refused under Fleet with the associated
\* data it was sealed with.
C8_Witness ==
    /\ Unsealed /\ Untampered
    /\ sealIn.dom = "Local" /\ unsealIn.dom = "Fleet" /\ unsealIn.aad = sealIn.aad
    /\ unsealOut.kind = "Decryption"

\* C9: unseal_bytes rejects with InvalidPayload every payload shorter than
\* header + nonce + tag (30 bytes), or whose version byte is not 1, or whose
\* flag byte has a bit other than bit 0 set.
C9_RejectsMalformed ==
    (Unsealed /\ (\/ Len(payload) < HEADER_LEN + NONCE_LEN + TAG_LEN
                  \/ payload[1] # PAYLOAD_VERSION_V1
                  \/ payload[2] \div 2 # 0))
        => unsealOut.kind = "InvalidPayload"

\* C10: with one bit of the flag byte, the ciphertext or the tag of a sealed
\* payload inverted, unseal with the right domain and associated data fails
\* with Decryption or InvalidPayload: no plaintext, no other error kind.
C10_BitFlipDetected ==
    (Unsealed /\ SameContext /\ tamper.kind = "flip"
        /\ (tamper.pos = HEADER_LEN \/ tamper.pos > HEADER_LEN + NONCE_LEN))
        => unsealOut.kind \in {"Decryption", "InvalidPayload"}

(***************************************************************************)
(*                        LICENSING PROPERTIES                             *)
(***************************************************************************)

WellFormedIds(c) ==
    \A i \in 1..Len(c.ids) : parse_machine_id_compound(c.ids[i]).kind = "Ok"

Shared(id, m) == Cardinality(Range(parse_machine_id_compound(id).parts) \cap Range(m))

\* best: the largest number of components an allowed id shares with the
\* machine, 0 for an empty list.
Best(c, m) ==
    IF c.ids = <<>> THEN 0
    ELSE CHOOSE n \in 0..3 : /\ \E i \in 1..Len(c.ids) : Shared(c.ids[i], m) = n
                             /\ \A i \in 1..Len(c.ids) : Shared(c.ids[i], m) <= n

HardwareSatisfied(c, m) == c.kind = "Any" \/ Best(c, m) >= c.min_matches

Validated == licOut # "none"

\* The result the four checks give when applied in their order.
FirstFailingCheck ==
    IF licIn.now < license.data.issued THEN "Internal"
    ELSE IF licIn.now > license.data.expires THEN "Expired"
    ELSE IF ~HardwareSatisfied(license.data.constraint, machine) THEN "HardwareMismatch"
    ELSE IF ~( /\ licIn.key # BadKeyBytes
               /\ license.signature # ShortSig
               /\ verify(licIn.key, to_stdvec(license.data), license.signature) )
         THEN "InvalidSignature"
    ELSE "Ok"

\* C11: validate returns Ok exactly when the clock is within [issued, expires],
\* the hardware constraint is satisfied and the signature verifies over the
\* encoding of the data under the given key; otherwise it returns the error of
\* the first failing check in the order Internal, Expired, HardwareMismatch,
\* InvalidSignature (stated for licenses whose allowed ids are well formed).
C11_ValidateFirstFailingCheck ==
    (Validated /\ WellFormedIds(license.data.constraint))
        => licOut = FirstFailingCheck

\* C12: under a Threshold constraint with well-formed ids the hardware check
\* fails with HardwareMismatch exactly when best < min_matches.
C12_ThresholdMismatchIffBelow ==
    ( /\ Validated
      /\ license.data.constraint.kind = "Threshold"
      /\ WellFormedIds(license.data.constraint)
      /\ licIn.now >= license.data.issued
      /\ licIn.now <= license.data.expires )
        => ( (licOut = "HardwareMismatch")
               <=> (Best(license.data.constraint, machine)
                        < license.data.constraint.min_matches) )

\* What remains of C11 and C12 once the empty list with min_matches = 0 is set
\* aside.
EmptyZero(c) == c.kind = "Threshold" /\ c.ids = <<>> /\ c.min_matches = 0

LicenseChecksApartFromEmptyZero ==
    EmptyZero(license.data.constraint)
        \/ (C11_ValidateFirstFailingCheck /\ C12_ThresholdMismatchIffBelow)

\* An altered license or another key is never accepted.
AlteredNeverAccepted ==
    licOut = "Ok" => ( /\ license.data = issuedBy.data
                       /\ licIn.key = verifying_key(issuedBy.key) )

(***************************************************************************)
(*                       STORAGE API PROPERTIES                            *)
(***************************************************************************)

\* C13: after a successful write of b, exists is true and read returns
\* exactly b until the next write or delete of that file (so after an
\* overwrite the latest buffer), and a successful write leaves no temp file of
\* its own.
C13_ReadYourWrite ==
    /\ (apiOut.op = "read" /\ apiOut.at \in PhysPaths /\ lastWrite[apiOut.at] # NoBuf)
          => (apiOut.res = "Ok" /\ apiOut.data = lastWrite[apiOut.at])
    /\ (apiOut.op = "exists" /\ apiOut.at \in PhysPaths /\ lastWrite[apiOut.at] # NoBuf)
          => apiOut.res = "true"
    /\ (apiOut.op = "write" /\ apiOut.res = "Ok")
          => ~\E f \in disk : f.path = apiOut.at /\ f.tmp = apiOut.tmp

\* A read, under Lz4, of a file that existed before and was overwritten.
C13_Witness ==
    /\ apiOut.op = "read" /\ apiOut.res = "Ok"
    /\ apiOut.at \in PhysPaths /\ lastWrite[apiOut.at] = Buf(255)
    /\ apiOut.found /\ fsMode = "Lz4"
    /\ apiOut.at = <<nm_r, nm_a, nm_x>>

\* C14: read, delete and metadata of a path whose file does not exist return
\* FileNotFound, on the root handle and on a namespaced view, and exists
\* returns false; after a delete that succeeded the file does not exist.
C14_MissingIsFileNotFound ==
    /\ (apiOut.op \in {"read", "delete", "metadata"} /\ apiOut.at # <<>> /\ ~apiOut.found)
          => apiOut.res = "FileNotFound"
    /\ (apiOut.op = "exists" /\ apiOut.at # <<>> /\ ~apiOut.found)
          => apiOut.res = "false"
    /\ (apiOut.op = "delete" /\ apiOut.res = "Ok") => ~HasFile(disk, apiOut.at)

(***************************************************************************)
(*                         SHARDING PROPERTIES                             *)
(***************************************************************************)

\* The location a sequence of components names, "." and ".." read lexically.
RECURSIVE Collapse(_, _)
Collapse(out, rest) ==
    IF rest = <<>> THEN out
    ELSE IF Head(rest) = CurDir THEN Collapse(out, Tail(rest))
    ELSE IF Head(rest) = ParentDir /\ out # <<>>
         THEN Collapse(SubSeq(out, 1, Len(out) - 1), Tail(rest))
    ELSE Collapse(Append(out, Head(rest)), Tail(rest))

ShardDirs(filename) ==
    IF Len(filename) >= 4 THEN <<SubSeq(filename, 1, 2), SubSeq(filename, 3, 4)>>
    ELSE <<>>

\* <root>/[namespace/][subdirectories of P/][s1/s2/]<filename>
ShardedForm(ns, P) ==
    LET named    == SelectSeq(P, NotCurDir)
        filename == named[Len(named)]
        subdirs  == SubSeq(named, 1, Len(named) - 1)
    IN Root \o Collapse(<<>>, (IF ns # <<>> THEN <<ns>> ELSE <<>>) \o subdirs
                                 \o ShardDirs(filename) \o <<filename>>)

\* C15: in a root without symlinks, a logical path P that resolves is mapped
\* to <root>/[namespace/][subdirectories of P/]<s1>/<s2>/<filename>, with s1
\* and s2 the first two and the next two characters of a filename of at least
\* 4 characters, and without shard directories for a shorter filename.
C15_ShardedLayout ==
    (shardOut.kind = "Ok" /\ fsCfg = "plain")
        => shardOut.path = ShardedForm(nsIn, pathIn)

\* A namespaced path with a subdirectory and a filename of 4 characters.
C15_Witness ==
    /\ shardOut.kind = "Ok" /\ fsCfg = "plain"
    /\ nsIn = nm_b /\ pathIn = <<nm_a, nm_file>>
    /\ shardOut.path = <<nm_r, nm_b, nm_a, <<"f", "i">>, <<"l", "e">>, nm_file>>

(***************************************************************************)
(*                         DELIVERY PROPERTIES                             *)
(***************************************************************************)

BroadcastRx == { r \in RxIds : rxs[r].live /\ heap[rxs[r].obj].kind = "Broadcast" }

\* The place of a received event among the events its channel accepted.
PlaceIn(log, v) == CHOOSE i \in 1..Len(log) : log[i] = v

\* C16: a broadcast subscriber receives events in publish order without
\* duplicates: what it got is taken from the channel's events in increasing
\* place; when it never lagged it got exactly the events published since it
\* subscribed, in order; when capacity + K events were published before its
\* first event, that event has index >= K; and without a later lag every
\* further event is the next published one.
C16_BroadcastOrder ==
    \A r \in BroadcastRx :
        LET rx  == rxs[r]
            o   == heap[rx.obj]
            n   == Len(rx.got)
            at(i) == PlaceIn(o.log, rx.got[i]) - rx.start - 1
        IN /\ \A i \in 1..n : \E k \in 1..Len(o.log) : o.log[k] = rx.got[i]
           /\ \A i \in 1..(n - 1) : at(i) < at(i + 1)
           /\ ~rx.lagged => \A i \in 1..n : at(i) = i - 1
           /\ (n > 0 /\ rx.behind > o.cap) => at(1) >= rx.behind - o.cap
           /\ ~rx.relag => \A i \in 1..(n - 1) : at(i + 1) = at(i) + 1

\* C17: after the subscriber fell behind, EventReceiverExt::recv returns the
\* freshest message of the channel (the latest slot).
C17_ResumesAtLatest ==
    \A r \in BroadcastRx :
        rxs[r].afterLag.skipped > 0 => rxs[r].afterLag.got = rxs[r].afterLag.latest

\* C19: while the bus is up, publish_queue on a queue that holds capacity
\* undelivered events returns ChannelFull and leaves the queue as it was; otherwise the event is
\* appended at the tail.
C19_FullOrAppended ==
    (downs = 0 /\ tried.res # "none") =>
        IF Len(tried.before) >= tried.cap
        THEN tried.res = "ChannelFull" /\ tried.after = tried.before
        ELSE tried.res = "Ok" /\ tried.after = Append(tried.before, tried.val)

\* What the receiver of queue o has taken out of it.
TakenFrom(o) ==
    IF \E r \in RxIds : rxs[r].live /\ rxs[r].obj = o
    THEN rxs[CHOOSE r \in RxIds : rxs[r].live /\ rxs[r].obj = o].got
    ELSE <<>>

\* C20: while the bus is up, the events publish_queue accepted for a type are
\* retained for the receiver of that type's queue: each queue that accepted
\* events is the one the map holds, and its events are, in arrival order and
\* once each, those its receiver got followed by those still queued.
C20_QueuedEventsKept ==
    downs = 0 =>
        \A o \in ObjIds :
            (heap[o].kind = "Mpsc" /\ heap[o].log # <<>>)
                => /\ reg[heap[o].ty] = o
                   /\ heap[o].log = TakenFrom(o) \o heap[o].buf

\* Nothing is left for receiver r to read on its channel.
Drained(r) ==
    LET o == heap[rxs[r].obj] IN
    CASE o.kind = "Broadcast" -> rxs[r].next = o.sent
      [] o.kind = "Watch"     -> rxs[r].next = o.sent
      [] OTHER                -> o.buf = <<>>

\* C18: a shutdown() step empties the map and returns the number of event
\* types that had a channel; dropping the last handle empties the map too;
\* every receiver obtained before then eventually observes closure, and only
\* once the events buffered for it are drained.
C18_ShutdownCloses ==
    /\ [][downs' # downs =>
            /\ \A ty \in Types : reg'[ty] = 0
            /\ alive' => ret' = [op |-> "shutdown", res |-> "Ok",
                                 n |-> Cardinality({ty \in Types : reg[ty] # 0})]]_vars
    /\ [](\A r \in RxIds : (rxs[r].early /\ rxs[r].closed) => Drained(r))
    /\ \A r \in RxIds : [](rxs[r].early => <>rxs[r].closed)

\* A receiver obtained before a shutdown that counted one channel received an
\* event buffered before it and then observed closure.
C18_Witness ==
    /\ downs = 1 /\ alive /\ ret.op = "shutdown" /\ ret.n = 1
    /\ \E r \in RxIds : rxs[r].early /\ rxs[r].closed /\ rxs[r].got # <<>>

\* The last handle was dropped and a receiver obtained before observed closure.
C18_WitnessDrop ==
    /\ downs = 1 /\ ~alive
    /\ \E r \in RxIds : rxs[r].early /\ rxs[r].closed

(***************************************************************************)
(*                    HARDWARE CHECK AND ID ORDER                          *)
(***************************************************************************)

\* The orders in which a list of n ids can be written.
Orders(n) == { f \in [1..n -> 1..n] : \A i, j \in 1..n : f[i] = f[j] => i = j }

Reordered(ids, f) == [i \in 1..Len(ids) |-> ids[f[i]]]

\* C30: the hardware check of the Threshold constraint of the license that was
\* validated gives the same result (Ok, HardwareMismatch or
\* MachineIDGeneration) for every order of its allowed ids.
C30_IdOrderIrrelevant ==
    (/\ licOut \in {"Ok", "HardwareMismatch", "MachineIDGeneration"}
     /\ license.data.constraint.kind = "Threshold") =>
        LET c == license.data.constraint IN
        \A f \in Orders(Len(c.ids)) :
            validate_hardware([c EXCEPT !.ids = Reordered(c.ids, f)], machine)
                = validate_hardware(c, machine)

(***************************************************************************)
(*                     FAN-OUT AND LATEST VALUE                            *)
(***************************************************************************)

\* Thread t completes a publish on a broadcast channel in this step.
PublishReturns(t) ==
    thr[t].pc = "use" /\ thr[t].op = "publish" /\ thr'[t].pc = "idle"

WatchObjs == { o \in ObjIds : heap[o].kind = "Watch" }

\* Thread t completes a publish_watch, or a subscribe_watch, in this step.
WatchPublishReturns(t) ==
    thr[t].pc = "use" /\ thr[t].op = "publish_watch" /\ thr'[t].pc = "idle"
WatchSubscribeReturns(t) ==
    thr[t].pc = "use" /\ thr[t].op = "subscribe_watch" /\ thr'[t].pc = "idle"

\* C22: the cell of a latest-value channel starts as the initial value given
\* by the call that created it and changes only when a publish overwrites it
\* with its event; that publish leaves every existing receiver marked changed;
\* a subscribe on an existing channel leaves the cell as it is and the new
\* receiver refers to that cell; and a receive returns the value of the cell.
C22_LatestValue ==
    /\ [][\A o \in ObjIds :
            /\ (heap[o].kind = "None" /\ heap'[o].kind = "Watch") =>
                  \E t \in Threads :
                      /\ thr[t].pc = "ensure_write" /\ thr'[t].obj = o
                      /\ heap'[o].buf = <<thr[t].val>>
            /\ (o \in WatchObjs /\ heap'[o].buf # heap[o].buf) =>
                  \E t \in Threads :
                      /\ WatchPublishReturns(t) /\ thr[t].obj = o
                      /\ heap'[o].buf = <<thr[t].val>>]_vars
    /\ [][\A t \in Threads :
            /\ WatchPublishReturns(t) =>
                  /\ heap'[thr[t].obj].buf = <<thr[t].val>>
                  /\ ret' = [op |-> "publish_watch", res |-> "Ok", n |-> 0]
                  /\ \A r \in Receivers(thr[t].obj) :
                        rxs'[r].next # heap'[thr[t].obj].sent
            /\ WatchSubscribeReturns(t) =>
                  /\ heap'[thr[t].obj].buf = heap[thr[t].obj].buf
                  /\ rxs'[ret'.n].live /\ rxs'[ret'.n].obj = thr[t].obj]_vars
    /\ [][\A r \in RxIds :
            (rxs[r].live /\ rxs[r].obj \in WatchObjs /\ rxs'[r].got # rxs[r].got)
                => rxs'[r].got = Append(rxs[r].got, heap[rxs[r].obj].buf[1])]_vars

\* A receiver subscribed with an initial value to a channel that two publishes
\* had already written, and its receive after a third publish returned that
\* third event.
C22_Witness ==
    \E r \in RxIds :
        /\ rxs[r].live /\ rxs[r].obj \in WatchObjs
        /\ rxs[r].start = 2 /\ heap[rxs[r].obj].sent = 3
        /\ rxs[r].got = heap[rxs[r].obj].buf
        /\ heap[rxs[r].obj].buf # <<WatchInitial>>

\* C28: publish_queue reports ChannelFull exactly when the queue it sends to
\* holds capacity undelivered events at the time of the send.
C28_ChannelFullIffFull ==
    tried.res # "none" =>
        (tried.res = "ChannelFull" <=> Len(tried.before) >= tried.cap)

\* C25: no call on the bus returns TypeMismatch.
C25_NoTypeMismatch == result.kind # "TypeMismatch"

(***************************************************************************)
(*                        TEMP FILE NAMES                                  *)
(***************************************************************************)

\* The writers whose call is between taking its temp name and returning.
InFlight == { w \in Writers : wpc[w] \notin {"idle", "dead"} }

\* C24: the temp name a write takes is none of the names taken by any write
\* before it on the handle (each writer's latest name is below the new one,
\* as were all earlier ones in their turn), and two writes in flight never
\* hold the same temp name.
C24_TmpNamesDistinct ==
    /\ [][\A w \in Writers :
            (wpc[w] = "idle" /\ wpc'[w] = "create") =>
                /\ wst'[w].tmp # TargetName
                /\ \A v \in Writers : wst[v].tmp < wst'[w].tmp
                /\ \A v \in Writers \ {w} : wst'[v].tmp = wst[v].tmp]_vars
    /\ [](\A v, w \in InFlight : v # w => wst[v].tmp # wst[w].tmp)

\* Two writes of the same file are in flight, each with its own temp file
\* created in the directory of the target.
C24_Witness ==
    /\ \A w \in Writers : wpc[w] \in {"write", "sync", "rename"}
    /\ \A w \in Writers : dir[wst[w].tmp] = wst[w].tmp + 1
    /\ Cardinality({wst[w].tmp : w \in Writers}) = NumWriters

(***************************************************************************)
(*                     WRITES TO DIFFERENT PATHS                           *)
(***************************************************************************)

\* C29: whatever was written to other paths before, a write to a valid path
\* that the operating system does not refuse succeeds, and every path holds
\* what was last written to it.
C29_PathsIndependent ==
    /\ (/\ apiOut.op = "write" /\ apiOut.fail = "none"
        /\ ResolveTable[apiOut.ns, apiOut.path].kind = "Ok")
          => apiOut.res = "Ok"
    /\ \A q \in PhysPaths :
          lastWrite[q] # NoBuf =>
              /\ HasFile(disk, q)
              /\ fsDecompress(fsMode, DataAt(disk, q)) = [ok |-> TRUE, data |-> lastWrite[q]]


(***************************************************************************)
(*                      TEMP-FILE PURGE PROPERTIES                         *)
(***************************************************************************)

\* A step of the purge's walk that handles one file entry.
PurgeVisits == mp.pc = "walk" /\ mp'.pc = "walk" /\ mp'.todo # mp.todo

\* A step of the purge's walk: a file entry or the directory entry.
PurgeSteps == mp.pc = "walk" /\ mp' # mp /\ mw' = mw

\* A write is between create_dir_all and its return.
WriteInFlight == mw.pc \in {"create", "write", "rename"}

\* C23: purge_tmp removes a file if and only if its name contains
\* ".mhubtmp." and its mtime is more than 300 seconds in the past: a file it
\* removes carries the marker and is older than 300 seconds on the clock at
\* the removal, and a marked file older than 300 seconds at the start of the
\* purge is removed; files without the marker and temp files at most 300
\* seconds old stay.
C23_PurgeRemovesOnlyOld ==
    [][PurgeVisits =>
          \A f \in mfiles :
             f.name \in mp.todo \ mp'.todo =>
                /\ f \notin mfiles' => (is_tmp(f.name) /\ mclock - f.mtime > threshold)
                /\ (is_tmp(f.name) /\ mp.now - f.mtime > threshold) => f \notin mfiles'
      ]_vars

\* C26: a purge_tmp that runs while a write is in flight never makes the
\* write fail and never removes data: no step of the purge deletes the
\* directory the write has created for its target, the temp file of the
\* write or the completed target file, and no write fails because its
\* directory or its temp file is gone.
C26_PurgeSparesWrites ==
    /\ [][PurgeSteps =>
             /\ (WriteInFlight /\ mdir) => mdir'
             /\ (WriteInFlight /\ MtHas(mfiles, mw.temp)) => MtHas(mfiles', mw.temp)
             /\ MtHas(mfiles, MtTarget) => MtHas(mfiles', MtTarget)
         ]_vars
    /\ [](mw.cause # "NotFound")

\* C27: a temp file left behind by a crashed write never makes a later
\* write fail: on the handle connected after the restart no write fails
\* because the temp name it takes is already on disk.
C27_OrphanHarmless == mcrashes > 0 => mw.cause # "AlreadyExists"

====
